---- MODULE Spec2Model ----
(***************************************************************************)
(* Content manager of pl4m_utils: blobs in a bucket paired with metadata   *)
(* documents in a Firestore collection.  The store (MetadataManager) and   *)
(* the orchestration on top of it (ContentManager) are modelled call by    *)
(* call: every remote call of an operation is one step of the caller that  *)
(* runs it, so that callers interleave between the remote calls of one     *)
(* operation exactly as concurrent requests do.                            *)
(*                                                                         *)
(* Python values are tagged records; a Python str is a sequence of         *)
(* one-character strings, a dict is a function from field names.           *)
(***************************************************************************)
EXTENDS Integers, Sequences, FiniteSets, TLC

\* ------------------------------------------------------------- bounds
\* Ids the store hands out over a behaviour (ids are never reused).
MaxDocs == 2
\* Last tick of the clock.
MaxClock == 2
\* Documents uploaded in the specifications with two callers or with every operation.
MaxBusyDocs == 1
\* Documents in the collections that are listed.
MaxListed == 12
\* Last page asked for.
MaxPage == 4

\* ------------------------------------------------------------- values
None == [t |-> "none"]
Dt(n) == [t |-> "datetime", n |-> n]
Str(s) == [t |-> "str", s |-> s]
IntV(n) == [t |-> "int", n |-> n]
List(l) == [t |-> "list", l |-> l]
Bool(b) == [t |-> "bool", b |-> b]
Bytes(b) == [t |-> "bytes", b |-> b]
Dict(d) == [t |-> "dict", d |-> d]

\* Python truth value of a value (None, empty str, 0, empty list are false).
Truthy(v) ==
    CASE v.t = "none" -> FALSE
      [] v.t = "datetime" -> TRUE
      [] v.t = "str" -> v.s # <<>>
      [] v.t = "int" -> v.n # 0
      [] v.t = "list" -> v.l # <<>>
      [] v.t = "bool" -> v.b
      [] v.t = "bytes" -> v.b # <<>>
      [] v.t = "dict" -> DOMAIN v.d # {}
      [] OTHER -> TRUE

\* dict.get(f): the value, or None when f is no key of d.
Get(d, f) == IF f \in DOMAIN d THEN d[f] ELSE None

\* dict d updated with dict u (u wins); also Firestore's field-level update.
Merge(d, u) == u @@ d

\* ------------------------------------------------------------- strings
LowerCase == <<"a","b","c","d","e","f","g","h","i","j","k","l","m",
               "n","o","p","q","r","s","t","u","v","w","x","y","z">>
UpperCase == <<"A","B","C","D","E","F","G","H","I","J","K","L","M",
               "N","O","P","Q","R","S","T","U","V","W","X","Y","Z">>
Digit == <<"0","1","2","3","4","5","6","7","8","9">>

IndexIn(seq, c) == CHOOSE i \in 1..Len(seq) : seq[i] = c
Occurs(seq, c) == \E i \in 1..Len(seq) : seq[i] = c

\* Unicode code point of a character.
CodePoint(c) ==
    IF Occurs(LowerCase, c) THEN 96 + IndexIn(LowerCase, c)
    ELSE IF Occurs(UpperCase, c) THEN 64 + IndexIn(UpperCase, c)
    ELSE IF Occurs(Digit, c) THEN 47 + IndexIn(Digit, c)
    ELSE CASE c = "-" -> 45
           [] c = "." -> 46
           [] c = "/" -> 47
           [] c = ":" -> 58
           [] c = "_" -> 95
           [] c = "e_acute" -> 233     \* U+00E9, written out: the one non-ASCII character used

\* str.lower()
LowerChar(c) == IF Occurs(UpperCase, c) THEN LowerCase[IndexIn(UpperCase, c)] ELSE c
Lower(s) == [i \in 1..Len(s) |-> LowerChar(s[i])]

\* s.split(sep)[-1]: what follows the last sep, all of s when there is none.
LastIndexOf(s, sep) ==
    IF Occurs(s, sep)
    THEN CHOOSE i \in 1..Len(s) : s[i] = sep /\ \A j \in (i+1)..Len(s) : s[j] # sep
    ELSE 0
LastSegment(s, sep) == SubSeq(s, LastIndexOf(s, sep) + 1, Len(s))

\* str.encode('utf-8') of one character and of a str.
Utf8Char(c) ==
    LET cp == CodePoint(c)
    IN  IF cp < 128 THEN <<cp>>
        ELSE IF cp < 2048 THEN <<192 + (cp \div 64), 128 + (cp % 64)>>
        ELSE <<224 + (cp \div 4096), 128 + ((cp \div 64) % 64), 128 + (cp % 64)>>
RECURSIVE Utf8(_)
Utf8(s) == IF s = <<>> THEN <<>> ELSE Utf8Char(Head(s)) \o Utf8(Tail(s))

\* The decimal digits of n >= 0, and format(n, "0<w>d").
RECURSIVE Digits(_)
Digits(n) == IF n < 10 THEN <<Digit[n + 1]>> ELSE Digits(n \div 10) \o <<Digit[(n % 10) + 1]>>
RECURSIVE Zeros(_)
Zeros(k) == IF k <= 0 THEN <<>> ELSE <<"0">> \o Zeros(k - 1)
\* A format that does not pad.
ZeroPad_NoPad(n, w) == Digits(n)

ZeroPad(n, w) == Zeros(w - Len(Digits(n))) \o Digits(n)

\* Python's order on str: lexicographic by code point.
RECURSIVE StrLess(_, _)
StrLess(a, b) ==
    IF a = <<>> THEN b # <<>>
    ELSE IF b = <<>> THEN FALSE
    ELSE IF CodePoint(Head(a)) # CodePoint(Head(b)) THEN CodePoint(Head(a)) < CodePoint(Head(b))
    ELSE StrLess(Tail(a), Tail(b))

\* sorted(list(S)) for a set S of str.
RECURSIVE SortedList(_)
SortedList(S) ==
    IF S = {} THEN <<>>
    ELSE LET m == CHOOSE x \in S : \A y \in S \ {x} : StrLess(x, y)
         IN  <<m>> \o SortedList(S \ {m})

\* set(l) for a list l.
SetOf(l) == {l[i] : i \in 1..Len(l)}

\* ------------------------------------------------------------- config.py
DEFAULT_GCS_BUCKET == <<"p","l","4","m","-","p","u","b","l","i","c","-","c","o","n","t","e","n","t">>

Kinds == {"documents", "images", "blog"}

KindName(kind) ==
    CASE kind = "documents" -> <<"d","o","c","u","m","e","n","t","s">>
      [] kind = "images" -> <<"i","m","a","g","e","s">>
      [] kind = "blog" -> <<"b","l","o","g">>

OctetStream == <<"a","p","p","l","i","c","a","t","i","o","n","/","o","c","t","e","t","-","s","t","r","e","a","m">>

CONTENT_TYPES(kind) ==
    CASE kind = "documents" ->
           [valid_extensions |-> {<<".","p","d","f">>},
            required_metadata |-> {"title", "description", "tags"},
            optional_metadata |-> {"author", "page_count", "created_date"},
            default_content_type |-> Str(<<"a","p","p","l","i","c","a","t","i","o","n","/","p","d","f">>),
            mime_types |-> None]
      [] kind = "images" ->
           [valid_extensions |-> {<<".","j","p","g">>, <<".","j","p","e","g">>, <<".","p","n","g">>,
                                  <<".","g","i","f">>, <<".","w","e","b","p">>},
            required_metadata |-> {"tags"},
            optional_metadata |-> {"description", "taken_at", "created_date"},
            default_content_type |-> None,
            mime_types |-> Dict(
               (<<"j","p","g">> :> <<"i","m","a","g","e","/","j","p","e","g">>) @@
               (<<"j","p","e","g">> :> <<"i","m","a","g","e","/","j","p","e","g">>) @@
               (<<"p","n","g">> :> <<"i","m","a","g","e","/","p","n","g">>) @@
               (<<"g","i","f">> :> <<"i","m","a","g","e","/","g","i","f">>) @@
               (<<"w","e","b","p">> :> <<"i","m","a","g","e","/","w","e","b","p">>))]
      [] kind = "blog" ->
           [valid_extensions |-> {<<".","m","d">>, <<".","m","a","r","k","d","o","w","n">>},
            required_metadata |-> {"title", "description", "tags", "last_modified"},
            optional_metadata |-> {"author", "created_date"},
            default_content_type |-> Str(<<"t","e","x","t","/","m","a","r","k","d","o","w","n">>),
            mime_types |-> None]

get_bucket_name == DEFAULT_GCS_BUCKET

\* get_mime_type(content_type, filename): the str it returns.
get_mime_type(kind, filename) ==
    LET config == CONTENT_TYPES(kind)
        default_type == IF config.default_content_type # None
                        THEN config.default_content_type.s ELSE OctetStream
        ext == LastSegment(Lower(filename), ".")
    IN  IF config.mime_types # None
        THEN IF ext \in DOMAIN config.mime_types.d THEN config.mime_types.d[ext] ELSE default_type
        ELSE default_type

\* ------------------------------------------------------------- content_manager.py (pure parts)
\* _validate_extension: TRUE when the extension is one of the kind's.
_validate_extension(kind, filename) ==
    LET ext == <<".">> \o LastSegment(Lower(filename), ".")
    IN  ext \in CONTENT_TYPES(kind).valid_extensions

\* A validator that looks for unknown fields before it looks for missing ones.
_validate_metadata_UnknownFirst(kind, metadata) ==
    IF metadata.t # "dict" THEN "not_dict"
    ELSE
    LET m == metadata.d
        required_fields == CONTENT_TYPES(kind).required_metadata \ {"last_modified"}
        missing_fields == required_fields \ DOMAIN m
        invalid_fields == DOMAIN m \ (required_fields \cup CONTENT_TYPES(kind).optional_metadata)
        type_ok(f) == IF f = "tags" THEN m[f].t \in {"list", "set"} ELSE m[f].t = "datetime"
    IN  IF invalid_fields # {} THEN "unknown"
        ELSE IF missing_fields # {} THEN "missing"
        ELSE IF \E f \in {"tags", "taken_at", "publish_date", "created_date"} :
                   f \in DOMAIN m /\ ~type_ok(f) THEN "type"
        ELSE "ok"

\* _validate_metadata: "ok", or the class of the first violation it raises for.
_validate_metadata(kind, metadata) ==
    IF metadata.t # "dict" THEN "not_dict"
    ELSE
    LET m == metadata.d
        required_fields == CONTENT_TYPES(kind).required_metadata \ {"last_modified"}
        missing_fields == required_fields \ DOMAIN m
        invalid_fields == DOMAIN m \ (required_fields \cup CONTENT_TYPES(kind).optional_metadata)
        type_ok(f) == IF f = "tags" THEN m[f].t \in {"list", "set"} ELSE m[f].t = "datetime"
    IN  IF missing_fields # {} THEN "missing"
        ELSE IF invalid_fields # {} THEN "unknown"
        ELSE IF \E f \in {"tags", "taken_at", "publish_date", "created_date"} :
                   f \in DOMAIN m /\ ~type_ok(f) THEN "type"
        ELSE "ok"

\* A datetime given by its calendar fields.
Date(year, month, day) == [t |-> "datetime", year |-> year, month |-> month, day |-> day]

\* Calendar fields of a datetime: tick n is the n-th day after 2024-03-04.
Calendar(dt) ==
    IF "n" \in DOMAIN dt THEN [year |-> 2024, month |-> 3, day |-> 4 + dt.n]
    ELSE [year |-> dt.year, month |-> dt.month, day |-> dt.day]

\* The f-string of _generate_file_path.
FormatPath(kind, filename, target_date) ==
    ZeroPad(target_date.year, 4) \o <<"/">> \o ZeroPad(target_date.month, 2) \o <<"/">> \o
    ZeroPad(target_date.day, 2) \o <<"/">> \o KindName(kind) \o <<"/">> \o filename

\* A path derivation that refuses the empty filename only.
_generate_file_path_AllowSlash(kind, filename, date, utcnow) ==
    IF filename = <<>>
    THEN [ok |-> FALSE, path |-> <<>>]
    ELSE [ok |-> TRUE,
          path |-> FormatPath(kind, filename, Calendar(IF Truthy(date) THEN date ELSE utcnow))]

\* _generate_file_path: [ok, path]; ok is FALSE when it raises "Invalid filename".
_generate_file_path(kind, filename, date, utcnow) ==
    IF filename = <<>> \/ Occurs(filename, "/")
    THEN [ok |-> FALSE, path |-> <<>>]
    ELSE [ok |-> TRUE,
          path |-> FormatPath(kind, filename, Calendar(IF Truthy(date) THEN date ELSE utcnow))]

\* bytes of a str-or-bytes content argument.
Encode(content) == IF content.t = "str" THEN Utf8(content.s) ELSE content.b

\* The except clause of each public ContentManager method: the exception class
\* that reaches the caller when exc is raised inside it.
\* A MetadataManager method called directly has no such clause.
Wrapped(op, exc) ==
    IF op \in {"upload_new_content", "update_content", "delete_content", "update_content_tags"}
    THEN "ContentManagerError"
    ELSE IF op \in {"get_content", "list_content", "update_metadata", "restore_content",
                     "get_available_tags"}
    THEN IF exc = "MetadataManagerError" THEN "ContentManagerError" ELSE exc
    ELSE exc

\* ------------------------------------------------------------- metadata_manager.py (pure parts)
\* A create_document that ignores custom_timestamps.
create_document_NoOverride(data, custom_timestamps, id, utcnow) ==
    Merge(data, [id |-> [t |-> "id", n |-> id], created_at |-> utcnow,
                 updated_at |-> utcnow, deleted_at |-> None])

\* The document create_document writes and returns.
create_document(data, custom_timestamps, id, utcnow) ==
    LET timestamp_data == [id |-> [t |-> "id", n |-> id], created_at |-> utcnow,
                           updated_at |-> utcnow, deleted_at |-> None]
        overridden == [k \in DOMAIN timestamp_data |->
                          IF Truthy(custom_timestamps) /\ k \in DOMAIN custom_timestamps.d
                          THEN custom_timestamps.d[k] ELSE timestamp_data[k]]
    IN  Merge(data, overridden)

\* A read_document that returns soft-deleted documents whatever the flag says.
read_document_IncludeDeleted(coll, document_id, include_deleted) ==
    IF document_id \notin DOMAIN coll THEN None ELSE coll[document_id]

\* read_document on collection contents coll: the document, or None.
read_document(coll, document_id, include_deleted) ==
    IF document_id \notin DOMAIN coll THEN None
    ELSE IF ~include_deleted /\ Truthy(Get(coll[document_id], "deleted_at")) THEN None
    ELSE coll[document_id]

Remove(f, k) == [x \in DOMAIN f \ {k} |-> f[x]]

\* A slice that takes the element at end as well.
PySlice_Inclusive(s, start, end) ==
    LET clamp(i) == IF i < 0 THEN (IF i + Len(s) < 0 THEN 0 ELSE i + Len(s))
                    ELSE IF i > Len(s) THEN Len(s) ELSE i
    IN  IF clamp(start) >= clamp(end + 1) THEN <<>> ELSE SubSeq(s, clamp(start) + 1, clamp(end + 1))

\* Python's s[start:end] for ints start and end.
PySlice(s, start, end) ==
    LET clamp(i) == IF i < 0 THEN (IF i + Len(s) < 0 THEN 0 ELSE i + Len(s))
                    ELSE IF i > Len(s) THEN Len(s) ELSE i
    IN  IF clamp(start) >= clamp(end) THEN <<>> ELSE SubSeq(s, clamp(start) + 1, clamp(end))

\* A FieldFilter of list_documents on a document, for the operators "==" and
\* "array_contains".
Matches(doc, f) ==
    /\ f.field \in DOMAIN doc
    /\ CASE f.op = "==" -> doc[f.field] = f.value
         [] f.op = "array_contains" ->
              doc[f.field].t = "list" /\ f.value \in SetOf(doc[f.field].l)

\* The order of query.order_by(order_by, direction): by the field (a datetime or a
\* str), documents with equal values by document id, in the same direction.
Precedes(a, b, order_by, descending) ==
    LET lt(x, y) ==
            \/ IF x[order_by].t = "datetime" THEN x[order_by].n < y[order_by].n
               ELSE StrLess(x[order_by].s, y[order_by].s)
            \/ (x[order_by] = y[order_by] /\ x["id"].n < y["id"].n)
    IN  IF descending THEN lt(b, a) ELSE lt(a, b)

RECURSIVE Ordered(_, _, _)
Ordered(S, order_by, descending) ==
    IF S = {} THEN <<>>
    ELSE LET first == CHOOSE x \in S : \A y \in S \ {x} : Precedes(x, y, order_by, descending)
         IN  <<first>> \o Ordered(S \ {first}, order_by, descending)

\* A query that keeps the documents matching any one of the filters.
all_docs_AnyFilter(coll, include_deleted, order_by, descending, filters) ==
    Ordered({coll[id] : id \in {i \in DOMAIN coll :
                 /\ \/ include_deleted
                    \/ ("deleted_at" \in DOMAIN coll[i] /\ coll[i]["deleted_at"] = None)
                 /\ \/ filters = <<>>
                    \/ \E k \in 1..Len(filters) : Matches(coll[i], filters[k])
                 /\ order_by \in DOMAIN coll[i]}},
            order_by, descending)

\* Lines 203-218: the documents the query streams, in its order.
all_docs(coll, include_deleted, order_by, descending, filters) ==
    Ordered({coll[id] : id \in {i \in DOMAIN coll :
                 /\ \/ include_deleted
                    \/ ("deleted_at" \in DOMAIN coll[i] /\ coll[i]["deleted_at"] = None)
                 /\ \A k \in 1..Len(filters) : Matches(coll[i], filters[k])
                 /\ order_by \in DOMAIN coll[i]}},
            order_by, descending)

\* A first index that counts pages from 0.
start_idx_ZeroBased(page, per_page) == page * per_page

\* Line 222.
start_idx(page, per_page) == (page - 1) * per_page

\* Lines 217-241: the dict list_documents returns.
list_documents(coll, include_deleted, limit, order_by, descending, filters, page, per_page) ==
    LET all == all_docs(coll, include_deleted, order_by, descending, filters)
        total_items == Len(all)
    IN  IF page # None /\ per_page # None
        THEN LET end_idx == start_idx(page.n, per_page.n) + per_page.n
             IN  [items |-> PySlice(all, start_idx(page.n, per_page.n), end_idx),
                  total |-> total_items,
                  page |-> page.n,
                  per_page |-> per_page.n,
                  pages |-> (total_items + per_page.n - 1) \div per_page.n]
        ELSE [items |-> IF Truthy(limit) THEN PySlice(all, 0, limit.n) ELSE all,
              total |-> total_items]

\* ------------------------------------------------------------- state
Procs == {"c1", "c2"}

VARIABLES
    content_type,   \* the kind the managers are constructed for (ContentManager.__init__)
    docs,           \* the kind's Firestore collection: document id -> document
    blobs,          \* the bucket: <<bucket, blob path>> -> [data, content_type]
    now,            \* the clock (datetime.utcnow() and SERVER_TIMESTAMP)
    next_id,        \* the next fresh document id
    pc,             \* per caller: "idle", or the remote call it is about to make
    loc,            \* per caller: the locals of the call in progress
    last            \* the call the last step finished: who, what, and what it returned or
                    \* raised; None when the last step finished no call

vars == <<content_type, docs, blobs, now, next_id, pc, loc, last>>

Ids == 1..MaxDocs

\* ------------------------------------------------------------- inputs
\* A file name and a metadata dict of the kind's own shape.
KindFile(kind) ==
    CASE kind = "documents" -> <<"a",".","p","d","f">>
      [] kind = "images" -> <<"a",".","j","p","g">>
      [] kind = "blog" -> <<"a",".","m","d">>

TagT == <<"t">>
TagU == <<"u">>

KindMetadata(kind) ==
    IF kind = "images" THEN Dict([tags |-> List(<<TagT>>)])
    ELSE Dict([title |-> Str(<<"T">>), description |-> Str(<<"D">>), tags |-> List(<<TagT>>)])

\* One bytes argument and one str argument whose UTF-8 encoding is longer than the str.
ContentA == Bytes(<<97>>)
ContentE == Str(<<"e_acute">>)

\* Arguments of upload_new_content: the kind's file and metadata with each of the
\* given contents, path dates and creation dates.
Uploads(kind, contents, dates, creation_dates) ==
    { [filename |-> KindFile(kind), content |-> c, metadata |-> KindMetadata(kind),
       date |-> d, creation_date |-> cd] : c \in contents, d \in dates, cd \in creation_dates }

\* ------------------------------------------------------------- call and return
NoCall == [caller |-> "", op |-> "", args |-> <<>>, ok |-> FALSE, exc |-> "", cause |-> "",
           value |-> None]

Finish(p, r) ==
    /\ pc' = [pc EXCEPT ![p] = "idle"]
    /\ loc' = [loc EXCEPT ![p] = None]
    /\ last' = r

Return(p, op, args, v) ==
    Finish(p, [caller |-> p, op |-> op, args |-> args, ok |-> TRUE, exc |-> "", cause |-> "",
               value |-> v])

Raise(p, op, args, exc, cause) ==
    Finish(p, [caller |-> p, op |-> op, args |-> args, ok |-> FALSE, exc |-> Wrapped(op, exc),
               cause |-> cause, value |-> None])

Goto(p, label, l) ==
    /\ pc' = [pc EXCEPT ![p] = label]
    /\ loc' = [loc EXCEPT ![p] = l]
    /\ last' = NoCall

BlobKey(bucket, blob_path) == <<bucket, blob_path>>

InitWith(kinds) ==
    /\ content_type \in kinds
    /\ docs = <<>>
    /\ blobs = <<>>
    /\ now = 1
    /\ next_id = 1
    /\ pc = [p \in Procs |-> "idle"]
    /\ loc = [p \in Procs |-> None]
    /\ last = NoCall

Tick ==
    /\ now < MaxClock
    /\ now' = now + 1
    /\ last' = NoCall
    /\ UNCHANGED <<content_type, docs, blobs, next_id, pc, loc>>

\* ------------------------------------------------------------- blob.upload_from_string
\* An upload_from_string whose failure is swallowed: the caller goes on regardless.
BlobWrite_Swallow(p, key, blob, label, l) ==
    \/ /\ blobs' = (key :> blob) @@ blobs
       /\ Goto(p, label, l)
    \/ /\ UNCHANGED blobs
       /\ Goto(p, label, l)

\* An upload_from_string that keeps the blob already stored at the key.
BlobWrite_KeepFirst(p, key, blob, label, l) ==
    \/ /\ blobs' = IF key \in DOMAIN blobs THEN blobs ELSE (key :> blob) @@ blobs
       /\ Goto(p, label, l)
    \/ /\ Raise(p, l.op, l.args, "StorageError", "storage_error")
       /\ UNCHANGED blobs

\* blob.upload_from_string (lines 206-208, and 160-166 in update_content): the blob is
\* written and the caller goes on to label, or the write raises and the call is over.
BlobWrite(p, key, blob, label, l) ==
    \/ /\ blobs' = (key :> blob) @@ blobs
       /\ Goto(p, label, l)
    \/ /\ Raise(p, l.op, l.args, "StorageError", "storage_error")
       /\ UNCHANGED blobs

\* ------------------------------------------------------------- upload_new_content
\* Uploads in progress hold an id in reserve, so that next_id stays within Ids.
IdsLeft == MaxDocs - (next_id - 1) - Cardinality({q \in Procs : pc[q] = "upload_create"})

\* Lines 197-208: the validations, the path, then blob.upload_from_string.
UploadBlob(p, arguments) ==
    /\ pc[p] = "idle"
    /\ \E a \in arguments :
        LET op == "upload_new_content"
            path == _generate_file_path(content_type, a.filename, a.date, Dt(now))
            mime == get_mime_type(content_type, a.filename)
            data == Encode(a.content)
        IN  IF ~_validate_extension(content_type, a.filename)
            THEN Raise(p, op, a, "ValueError", "invalid_extension") /\ UNCHANGED blobs
            ELSE IF _validate_metadata(content_type, a.metadata) # "ok"
            THEN Raise(p, op, a, "ValueError", _validate_metadata(content_type, a.metadata))
                 /\ UNCHANGED blobs
            ELSE IF ~path.ok
            THEN Raise(p, op, a, "ValueError", "invalid_filename") /\ UNCHANGED blobs
            ELSE /\ IdsLeft > 0
                 /\ BlobWrite(p, BlobKey(get_bucket_name, path.path),
                              [data |-> data, content_type |-> mime], "upload_create",
                              [op |-> op, args |-> a, file_path |-> path.path, content |-> data,
                               mime |-> mime, metadata |-> a.metadata.d,
                               creation_date |-> a.creation_date])
    /\ UNCHANGED <<content_type, docs, now, next_id>>

\* A record whose size is the length of the content as given, before it is encoded.
content_data_SizeAsGiven(kind, l, utcnow) ==
    LET given == l.args.content
        base == Merge(l.metadata,
                      [gcs_path |-> [t |-> "str", scheme |-> <<"g","s">>,
                                     bucket |-> get_bucket_name, path |-> l.file_path],
                       bucket |-> Str(get_bucket_name),
                       blob_path |-> Str(l.file_path),
                       size_bytes |-> IntV(IF given.t = "str" THEN Len(given.s) ELSE Len(given.b)),
                       content_type |-> Str(l.mime)])
    IN  IF "last_modified" \in CONTENT_TYPES(kind).required_metadata
        THEN Merge(base, [last_modified |-> utcnow]) ELSE base

\* A record that carries a last_modified stamp whatever the kind.
content_data_AlwaysStamp(kind, l, utcnow) ==
    Merge(Merge(l.metadata,
                [gcs_path |-> [t |-> "str", scheme |-> <<"g","s">>,
                               bucket |-> get_bucket_name, path |-> l.file_path],
                 bucket |-> Str(get_bucket_name),
                 blob_path |-> Str(l.file_path),
                 size_bytes |-> IntV(Len(l.content)),
                 content_type |-> Str(l.mime)]),
          [last_modified |-> utcnow])

\* The dict upload_new_content hands to create_document (lines 210-220).
content_data(kind, l, utcnow) ==
    LET base == Merge(l.metadata,
                      [gcs_path |-> [t |-> "str", scheme |-> <<"g","s">>,
                                     bucket |-> get_bucket_name, path |-> l.file_path],
                       bucket |-> Str(get_bucket_name),
                       blob_path |-> Str(l.file_path),
                       size_bytes |-> IntV(Len(l.content)),
                       content_type |-> Str(l.mime)])
    IN  IF "last_modified" \in CONTENT_TYPES(kind).required_metadata
        THEN Merge(base, [last_modified |-> utcnow]) ELSE base

\* An upload that deletes the blob it wrote when create_document fails.
UploadCreate_Rollback(p) ==
    /\ pc[p] = "upload_create"
    /\ LET l == loc[p]
           custom_timestamps == IF Truthy(l.creation_date)
                                THEN Dict([created_at |-> l.creation_date]) ELSE None
           doc == create_document(content_data(content_type, l, Dt(now)),
                                  custom_timestamps, next_id, Dt(now))
       IN  \/ /\ docs' = (next_id :> doc) @@ docs
              /\ next_id' = next_id + 1
              /\ Return(p, l.op, l.args, doc)
              /\ UNCHANGED blobs
           \/ /\ Raise(p, l.op, l.args, "MetadataManagerError", "database_error")
              /\ blobs' = Remove(blobs, BlobKey(get_bucket_name, l.file_path))
              /\ UNCHANGED <<docs, next_id>>
    /\ UNCHANGED <<content_type, now>>

\* Lines 210-228: create_document with the record that references the blob.
UploadCreate(p) ==
    /\ pc[p] = "upload_create"
    /\ LET l == loc[p]
           custom_timestamps == IF Truthy(l.creation_date)
                                THEN Dict([created_at |-> l.creation_date]) ELSE None
           doc == create_document(content_data(content_type, l, Dt(now)),
                                  custom_timestamps, next_id, Dt(now))
       IN  \/ /\ docs' = (next_id :> doc) @@ docs
              /\ next_id' = next_id + 1
              /\ Return(p, l.op, l.args, doc)
           \/ /\ Raise(p, l.op, l.args, "MetadataManagerError", "database_error")
              /\ UNCHANGED <<docs, next_id>>
    /\ UNCHANGED <<content_type, blobs, now>>

\* ------------------------------------------------------------- get_content
GetContent(p) ==
    /\ pc[p] = "idle"
    /\ \E id \in Ids, include_deleted \in BOOLEAN :
        LET args == [id |-> id, include_deleted |-> include_deleted]
        IN  \/ Return(p, "get_content", args, read_document(docs, id, include_deleted))
            \/ Raise(p, "get_content", args, "MetadataManagerError", "database_error")
    /\ UNCHANGED <<content_type, docs, blobs, now, next_id>>

\* The GET route (content_flask_bp.py lines 104-106): 404 when get_content returns
\* nothing, 200 otherwise.
get_content_status(metadata) == IF metadata = None THEN 404 ELSE 200

\* ------------------------------------------------------------- update_document
\* Lines 146-150: what update_document raises for after its doc_ref.get().
update_check(coll, document_id) ==
    IF document_id \notin DOMAIN coll THEN "not_found"
    ELSE IF Truthy(Get(coll[document_id], "deleted_at")) THEN "already_deleted"
    ELSE "ok"

\* An update that writes the updates and leaves updated_at as it was.
update_write_NoStamp(doc, updates, server_timestamp) ==
    Merge(doc, updates)

\* An update that writes only the fields the document does not have yet.
update_write_KeepExisting(doc, updates, server_timestamp) ==
    Merge(Merge(updates, doc), [updated_at |-> server_timestamp])

\* Lines 152-153: the document after doc_ref.update(updates).
update_write(doc, updates, server_timestamp) ==
    Merge(doc, Merge(updates, [updated_at |-> server_timestamp]))

\* An update_document whose refusal deletes the blob of the record update_content read.
UdGet_Compensate(p) ==
    /\ pc[p] = "ud_get"
    /\ LET l == loc[p]
       IN  IF update_check(docs, l.id) # "ok"
           THEN /\ Raise(p, l.op, l.args, "MetadataManagerError", update_check(docs, l.id))
                /\ blobs' = Remove(blobs, BlobKey(l.content["bucket"].s, l.content["blob_path"].s))
           ELSE /\ Goto(p, "ud_write", l)
                /\ UNCHANGED blobs
    /\ UNCHANGED <<content_type, docs, now, next_id>>

\* Lines 139-150: the parameter check, doc_ref.get() and the two checks on it.
UdGet(p) ==
    /\ pc[p] = "ud_get"
    /\ LET l == loc[p]
       IN  IF DOMAIN l.updates = {}
           THEN Raise(p, l.op, l.args, "ValueError", "missing_params")
           ELSE \/ IF update_check(docs, l.id) # "ok"
                   THEN Raise(p, l.op, l.args, "MetadataManagerError", update_check(docs, l.id))
                   ELSE Goto(p, "ud_write", l)
                \/ Raise(p, l.op, l.args, "MetadataManagerError", "database_error")
    /\ UNCHANGED <<content_type, docs, blobs, now, next_id>>

\* Lines 152-153: doc_ref.update, which fails on a document that is gone.
UdWrite(p) ==
    /\ pc[p] = "ud_write"
    /\ LET l == loc[p]
       IN  \/ /\ l.id \in DOMAIN docs
              /\ docs' = [docs EXCEPT ![l.id] = update_write(@, l.updates, Dt(now))]
              /\ Goto(p, "ud_read", l)
           \/ /\ l.id \notin DOMAIN docs
              /\ Raise(p, l.op, l.args, "MetadataManagerError", "update_of_missing")
              /\ UNCHANGED docs
           \/ /\ Raise(p, l.op, l.args, "MetadataManagerError", "database_error")
              /\ UNCHANGED docs
    /\ UNCHANGED <<content_type, blobs, now, next_id>>

\* Line 155: the read_document whose result update_document returns.
UdRead(p) ==
    /\ pc[p] = "ud_read"
    /\ LET l == loc[p]
       IN  \/ Return(p, l.op, l.args, read_document(docs, l.id, FALSE))
           \/ Raise(p, l.op, l.args, "MetadataManagerError", "database_error")
    /\ UNCHANGED <<content_type, docs, blobs, now, next_id>>

\* ------------------------------------------------------------- update_content
\* Lines 152-158: get_content and the MIME type.
UcRead(p, contents) ==
    /\ pc[p] = "idle"
    /\ \E id \in Ids, new_content \in contents :
        LET op == "update_content"
            args == [id |-> id, new_content |-> new_content]
            content == read_document(docs, id, FALSE)
            name == LastSegment(content["blob_path"].s, "/")
            mime == IF Truthy(Get(content, "content_type"))
                    THEN content["content_type"].s ELSE get_mime_type(content_type, name)
        IN  \/ IF content = None
               THEN Raise(p, op, args, "ValueError", "not_found")
               ELSE Goto(p, "uc_blob",
                         [op |-> op, args |-> args, id |-> id, content |-> content,
                          bucket |-> content["bucket"].s,
                          blob_path |-> content["blob_path"].s, mime |-> mime,
                          data |-> Encode(new_content)])
            \/ Raise(p, op, args, "MetadataManagerError", "database_error")
    /\ UNCHANGED <<content_type, docs, blobs, now, next_id>>

\* An update_content that forgets the new size.
content_updates_NoSize(kind, data, utcnow) == [last_modified |-> utcnow]

\* The updates update_content hands to update_document (lines 168-170).
content_updates(kind, data, utcnow) ==
    IF "last_modified" \in CONTENT_TYPES(kind).required_metadata
    THEN [size_bytes |-> IntV(Len(data)), last_modified |-> utcnow]
    ELSE [size_bytes |-> IntV(Len(data))]

\* Lines 160-170: blob.upload_from_string at the record's own key.
UcBlob(p) ==
    /\ pc[p] = "uc_blob"
    /\ LET l == loc[p]
       IN  BlobWrite(p, BlobKey(l.bucket, l.blob_path), [data |-> l.data, content_type |-> l.mime],
                     "ud_get", [op |-> l.op, args |-> l.args, id |-> l.id, content |-> l.content,
                                updates |-> content_updates(content_type, l.data, Dt(now))])
    /\ UNCHANGED <<content_type, docs, now, next_id>>

\* ------------------------------------------------------------- update_metadata
\* A protected set that leaves the MIME type out.
protected_fields_NoContentType == {"gcs_path", "bucket", "blob_path", "id", "created_at"}

\* A protected set that leaves the blob path out.
protected_fields_NoBlobPath == {"gcs_path", "bucket", "id", "created_at", "content_type"}

\* Line 179.
protected_fields == {"gcs_path", "bucket", "blob_path", "id", "created_at", "content_type"}

\* Lines 179-188: the protected-field check, then the call of update_document.
\* An update_metadata that leaves the protected fields to the metadata store.
update_metadata_Unchecked(p, op, args, id, updates) ==
    LET update_data == IF "last_modified" \in CONTENT_TYPES(content_type).required_metadata
                       THEN Merge(updates, [last_modified |-> Dt(now)]) ELSE updates
    IN  Goto(p, "ud_get", [op |-> op, args |-> args, id |-> id, updates |-> update_data])

update_metadata(p, op, args, id, updates) ==
    LET update_data == IF "last_modified" \in CONTENT_TYPES(content_type).required_metadata
                       THEN Merge(updates, [last_modified |-> Dt(now)]) ELSE updates
    IN  IF protected_fields \cap DOMAIN updates # {}
        THEN Raise(p, op, args, "ValueError", "protected")
        ELSE Goto(p, "ud_get", [op |-> op, args |-> args, id |-> id, updates |-> update_data])

UpdateMetadata(p, update_sets) ==
    /\ pc[p] = "idle"
    /\ \E id \in Ids, updates \in update_sets :
        update_metadata(p, "update_metadata", [id |-> id, updates |-> updates], id, updates)
    /\ UNCHANGED <<content_type, docs, blobs, now, next_id>>

\* ------------------------------------------------------------- update_content_tags
\* A tag update that starts from no tags whatever the record carries.
current_tags_Forget(content) == [ok |-> TRUE, tags |-> {}]

\* set(content.get('tags', [])): [ok, tags]; ok is FALSE when set() raises TypeError.
\* (Line 295.)
current_tags(content) ==
    LET v == IF "tags" \in DOMAIN content THEN content["tags"] ELSE List(<<>>)
    IN  IF v.t = "list" THEN [ok |-> TRUE, tags |-> SetOf(v.l)]
        ELSE IF v.t = "str" THEN [ok |-> TRUE, tags |-> {<<v.s[i]>> : i \in 1..Len(v.s)}]
        ELSE [ok |-> FALSE, tags |-> {}]

\* A tag update that treats an unknown operation as 'set'.
new_tags_DefaultSet(current, tags, operation) ==
    CASE operation = "add" -> [ok |-> TRUE, tags |-> current \cup SetOf(tags)]
      [] operation = "remove" -> [ok |-> TRUE, tags |-> current \ SetOf(tags)]
      [] OTHER -> [ok |-> TRUE, tags |-> SetOf(tags)]

\* A tag update whose 'add' replaces the current tags.
new_tags_AddReplaces(current, tags, operation) ==
    CASE operation \in {"set", "add"} -> [ok |-> TRUE, tags |-> SetOf(tags)]
      [] operation = "remove" -> [ok |-> TRUE, tags |-> current \ SetOf(tags)]
      [] OTHER -> [ok |-> FALSE, tags |-> {}]

\* Lines 297-304: [ok, tags]; ok is FALSE for an operation that is none of the three.
new_tags(current, tags, operation) ==
    CASE operation = "set" -> [ok |-> TRUE, tags |-> SetOf(tags)]
      [] operation = "add" -> [ok |-> TRUE, tags |-> current \cup SetOf(tags)]
      [] operation = "remove" -> [ok |-> TRUE, tags |-> current \ SetOf(tags)]
      [] OTHER -> [ok |-> FALSE, tags |-> {}]

\* Lines 290-307: get_content, the new tag set, then update_metadata with it sorted.
UtRead(p, tag_args, operations) ==
    /\ pc[p] = "idle"
    /\ \E id \in Ids, tags \in tag_args, operation \in operations :
        LET op == "update_content_tags"
            args == [id |-> id, tags |-> tags, operation |-> operation]
            content == read_document(docs, id, FALSE)
            cur == current_tags(content)
            new == new_tags(cur.tags, tags, operation)
        IN  \/ IF content = None THEN Raise(p, op, args, "ValueError", "not_found")
               ELSE IF ~cur.ok THEN Raise(p, op, args, "TypeError", "tags_not_iterable")
               ELSE IF ~new.ok THEN Raise(p, op, args, "ValueError", "invalid_operation")
               ELSE update_metadata(p, op, args, id, [tags |-> List(SortedList(new.tags))])
            \/ Raise(p, op, args, "MetadataManagerError", "database_error")
    /\ UNCHANGED <<content_type, docs, blobs, now, next_id>>

\* ------------------------------------------------------------- delete_content
\* A delete_content that takes the hard branch whatever the flag says.
delete_branch_AlwaysHard(hard_delete) == "del_exists"

\* Lines 239-246: the first call of each branch of delete_content.
delete_branch(hard_delete) == IF hard_delete THEN "del_exists" ELSE "sd_get"

\* Lines 235-239: get_content(include_deleted=True), then the branch on hard_delete.
DelRead(p, hard_flags) ==
    /\ pc[p] = "idle"
    /\ \E id \in Ids, hard_delete \in hard_flags :
        LET op == "delete_content"
            args == [id |-> id, hard_delete |-> hard_delete]
            content == read_document(docs, id, TRUE)
        IN  \/ IF content = None THEN Raise(p, op, args, "ValueError", "not_found")
               ELSE Goto(p, delete_branch(hard_delete),
                         [op |-> op, args |-> args, id |-> id, bucket |-> content["bucket"].s,
                          blob_path |-> content["blob_path"].s])
            \/ Raise(p, op, args, "MetadataManagerError", "database_error")
    /\ UNCHANGED <<content_type, docs, blobs, now, next_id>>

\* Line 242: blob.exists().
DelExists(p) ==
    /\ pc[p] = "del_exists"
    /\ \/ Goto(p, IF BlobKey(loc[p].bucket, loc[p].blob_path) \in DOMAIN blobs
                  THEN "del_blob" ELSE "del_doc", loc[p])
       \/ Raise(p, loc[p].op, loc[p].args, "StorageError", "storage_error")
    /\ UNCHANGED <<content_type, docs, blobs, now, next_id>>

\* Line 243: blob.delete(), which fails on a blob that is gone.
DelBlob(p) ==
    /\ pc[p] = "del_blob"
    /\ LET key == BlobKey(loc[p].bucket, loc[p].blob_path)
       IN  \/ /\ key \in DOMAIN blobs
              /\ blobs' = Remove(blobs, key)
              /\ Goto(p, "del_doc", loc[p])
           \/ /\ key \notin DOMAIN blobs
              /\ Raise(p, loc[p].op, loc[p].args, "StorageError", "blob_not_found")
              /\ UNCHANGED blobs
           \/ /\ Raise(p, loc[p].op, loc[p].args, "StorageError", "storage_error")
              /\ UNCHANGED blobs
    /\ UNCHANGED <<content_type, docs, now, next_id>>

\* A hard_delete_document that reports success and deletes nothing.
hard_delete_document_Noop(coll, document_id) == coll

\* A hard_delete_document that passes over soft-deleted documents.
hard_delete_document_OnlyLive(coll, document_id) ==
    IF document_id \in DOMAIN coll /\ Truthy(Get(coll[document_id], "deleted_at"))
    THEN coll ELSE Remove(coll, document_id)

\* hard_delete_document (lines 326-330): delete, whether or not the document exists.
hard_delete_document(coll, document_id) == Remove(coll, document_id)

\* MetadataManager.hard_delete_document called directly (as the store's tests call it).
HardDelete(p) ==
    /\ pc[p] = "idle"
    /\ \E id \in Ids \cup {next_id} :
        LET op == "hard_delete_document"
            args == [id |-> id]
        IN  \/ /\ docs' = hard_delete_document(docs, id)
               /\ Return(p, op, args, Bool(TRUE))
            \/ /\ Raise(p, op, args, "ValueError", "database_error")
               /\ UNCHANGED docs
    /\ UNCHANGED <<content_type, blobs, now, next_id>>

\* Line 244.
DelDoc(p) ==
    /\ pc[p] = "del_doc"
    /\ \/ /\ docs' = hard_delete_document(docs, loc[p].id)
          /\ Return(p, loc[p].op, loc[p].args, Bool(TRUE))
       \/ /\ Raise(p, loc[p].op, loc[p].args, "ValueError", "database_error")
          /\ UNCHANGED docs
    /\ UNCHANGED <<content_type, blobs, now, next_id>>

\* ------------------------------------------------------------- soft_delete
\* A soft_delete that accepts a document that is already deleted.
soft_delete_check_Idempotent(coll, document_id) ==
    IF document_id \notin DOMAIN coll THEN "not_found" ELSE "ok"

\* Lines 266-270: what soft_delete raises for after its doc_ref.get().
soft_delete_check(coll, document_id) ==
    IF document_id \notin DOMAIN coll THEN "not_found"
    ELSE IF Truthy(Get(coll[document_id], "deleted_at")) THEN "already_deleted"
    ELSE "ok"

\* soft_delete that refreshes updated_at and forgets the tombstone.
soft_delete_fields_NoTombstone(server_timestamp) == [updated_at |-> server_timestamp]

\* Lines 272-275: the fields soft_delete writes.
soft_delete_fields(server_timestamp) ==
    [deleted_at |-> server_timestamp, updated_at |-> server_timestamp]

\* MetadataManager.soft_delete called directly (as the store's tests call it).
SoftDelete(p) ==
    /\ pc[p] = "idle"
    /\ \E id \in Ids : Goto(p, "sd_get", [op |-> "soft_delete", args |-> [id |-> id], id |-> id])
    /\ UNCHANGED <<content_type, docs, blobs, now, next_id>>

\* Lines 263-270: doc_ref.get() and the two checks on it.
SdGet(p) ==
    /\ pc[p] = "sd_get"
    /\ LET l == loc[p]
       IN  \/ IF soft_delete_check(docs, l.id) # "ok"
              THEN Raise(p, l.op, l.args, "MetadataManagerError", soft_delete_check(docs, l.id))
              ELSE Goto(p, "sd_write", l)
           \/ Raise(p, l.op, l.args, "MetadataManagerError", "database_error")
    /\ UNCHANGED <<content_type, docs, blobs, now, next_id>>

\* Lines 272-276: doc_ref.update, which fails on a document that is gone.
SdWrite(p) ==
    /\ pc[p] = "sd_write"
    /\ LET l == loc[p]
       IN  \/ /\ l.id \in DOMAIN docs
              /\ docs' = [docs EXCEPT ![l.id] = Merge(@, soft_delete_fields(Dt(now)))]
              /\ Return(p, l.op, l.args, Bool(TRUE))
           \/ /\ l.id \notin DOMAIN docs
              /\ Raise(p, l.op, l.args, "MetadataManagerError", "update_of_missing")
              /\ UNCHANGED docs
           \/ /\ Raise(p, l.op, l.args, "MetadataManagerError", "database_error")
              /\ UNCHANGED docs
    /\ UNCHANGED <<content_type, blobs, now, next_id>>

\* ------------------------------------------------------------- restore_content
\* A restore_document that accepts a document that is not deleted.
restore_check_AnyDocument(coll, document_id) ==
    IF document_id \notin DOMAIN coll THEN "not_found" ELSE "ok"

\* Lines 300-304: what restore_document raises for after its doc_ref.get().
restore_check(coll, document_id) ==
    IF document_id \notin DOMAIN coll THEN "not_found"
    ELSE IF ~Truthy(Get(coll[document_id], "deleted_at")) THEN "not_deleted"
    ELSE "ok"

\* A restore that stamps the record as created anew.
restore_fields_Recreate(server_timestamp) ==
    [deleted_at |-> None, updated_at |-> server_timestamp, created_at |-> server_timestamp]

\* A restore that leaves updated_at as it is.
restore_fields_KeepStamp(server_timestamp) == [deleted_at |-> None]

\* Lines 306-309: the fields restore_document writes.
restore_fields(server_timestamp) == [deleted_at |-> None, updated_at |-> server_timestamp]

\* restore_content (lines 250-255): the call of restore_document.
RestoreContent(p) ==
    /\ pc[p] = "idle"
    /\ \E id \in Ids : Goto(p, "rs_get", [op |-> "restore_content", args |-> [id |-> id], id |-> id])
    /\ UNCHANGED <<content_type, docs, blobs, now, next_id>>

\* Lines 297-304: doc_ref.get() and the two checks on it.
RsGet(p) ==
    /\ pc[p] = "rs_get"
    /\ LET l == loc[p]
       IN  \/ IF restore_check(docs, l.id) # "ok"
              THEN Raise(p, l.op, l.args, "MetadataManagerError", restore_check(docs, l.id))
              ELSE Goto(p, "rs_write", l)
           \/ Raise(p, l.op, l.args, "MetadataManagerError", "database_error")
    /\ UNCHANGED <<content_type, docs, blobs, now, next_id>>

\* Lines 306-310: doc_ref.update, which fails on a document that is gone.
RsWrite(p) ==
    /\ pc[p] = "rs_write"
    /\ LET l == loc[p]
       IN  \/ /\ l.id \in DOMAIN docs
              /\ docs' = [docs EXCEPT ![l.id] = Merge(@, restore_fields(Dt(now)))]
              /\ Return(p, l.op, l.args, Bool(TRUE))
           \/ /\ l.id \notin DOMAIN docs
              /\ Raise(p, l.op, l.args, "MetadataManagerError", "update_of_missing")
              /\ UNCHANGED docs
           \/ /\ Raise(p, l.op, l.args, "MetadataManagerError", "database_error")
              /\ UNCHANGED docs
    /\ UNCHANGED <<content_type, blobs, now, next_id>>

\* ------------------------------------------------------------- _validate_metadata
\* ContentManager._validate_metadata called directly (as its tests call it).
ValidateMetadata(p, metadatas) ==
    /\ pc[p] = "idle"
    /\ \E metadata \in metadatas :
        LET op == "_validate_metadata"
            args == [metadata |-> metadata]
        IN  IF _validate_metadata(content_type, metadata) = "ok"
            THEN Return(p, op, args, None)
            ELSE Raise(p, op, args, "ValueError", _validate_metadata(content_type, metadata))
    /\ UNCHANGED <<content_type, docs, blobs, now, next_id>>

\* ------------------------------------------------------------- _generate_file_path
\* ContentManager._generate_file_path called directly.
GenerateFilePath(p, filenames, dates) ==
    /\ pc[p] = "idle"
    /\ \E filename \in filenames, date \in dates :
        LET op == "_generate_file_path"
            args == [filename |-> filename, date |-> date]
            path == _generate_file_path(content_type, filename, date, Dt(now))
        IN  IF path.ok THEN Return(p, op, args, Str(path.path))
            ELSE Raise(p, op, args, "ValueError", "invalid_filename")
    /\ UNCHANGED <<content_type, docs, blobs, now, next_id>>

\* ------------------------------------------------------------- get_available_tags
\* A tag aggregation that reads soft-deleted documents whatever the flag says.
get_distinct_tags_IncludeDeleted(coll, include_deleted) ==
    List(SortedList(UNION {SetOf(coll[id]["tags"].l) : id \in {i \in DOMAIN coll :
             "tags" \in DOMAIN coll[i] /\ coll[i]["tags"].t \in {"list", "set"}}}))

\* Lines 348-365 of metadata_manager.py: the sorted list of the tags of the documents
\* the query streams; a tags value that is no list or set is passed over.
get_distinct_tags(coll, include_deleted) ==
    List(SortedList(UNION {SetOf(coll[id]["tags"].l) : id \in {i \in DOMAIN coll :
             /\ \/ include_deleted
                \/ ("deleted_at" \in DOMAIN coll[i] /\ coll[i]["deleted_at"] = None)
             /\ "tags" \in DOMAIN coll[i]
             /\ coll[i]["tags"].t \in {"list", "set"}}}))

\* Lines 267-270 of content_manager.py.
GetAvailableTags(p) ==
    /\ pc[p] = "idle"
    /\ \/ Return(p, "get_available_tags", <<>>, get_distinct_tags(docs, FALSE))
       \/ Raise(p, "get_available_tags", <<>>, "MetadataManagerError", "database_error")
    /\ UNCHANGED <<content_type, docs, blobs, now, next_id>>

\* MetadataManager.get_distinct_tags called directly.
GetDistinctTags(p, include_flags) ==
    /\ pc[p] = "idle"
    /\ \E include_deleted \in include_flags :
        LET args == [include_deleted |-> include_deleted]
        IN  \/ Return(p, "get_distinct_tags", args, get_distinct_tags(docs, include_deleted))
            \/ Raise(p, "get_distinct_tags", args, "MetadataManagerError", "database_error")
    /\ UNCHANGED <<content_type, docs, blobs, now, next_id>>

\* ------------------------------------------------------------- list_content
Desc == <<"d", "e", "s", "c">>
Asc == <<"a", "s", "c">>

\* Lines 129-140: the filter tuples as dicts, then one query for the page.
ListContent(p, filter_sets, pages, per_pages, sort_orders) ==
    /\ pc[p] = "idle"
    /\ \E filters \in filter_sets, page \in pages, per_page \in per_pages,
          sort_order \in sort_orders :
        LET op == "list_content"
            args == [filters |-> filters, page |-> page, per_page |-> per_page,
                     sort_by |-> "created_at", sort_order |-> sort_order]
            filter_dicts == [k \in 1..Len(filters) |->
                                [field |-> filters[k][1], op |-> filters[k][2],
                                 value |-> filters[k][3]]]
        IN  \/ Return(p, op, args,
                      list_documents(docs, FALSE, None, args.sort_by,
                                     Lower(sort_order) = Desc, filter_dicts, page, per_page))
            \/ Raise(p, op, args, "MetadataManagerError", "database_error")
    /\ UNCHANGED <<content_type, docs, blobs, now, next_id>>

\* MetadataManager.list_documents called directly, without pagination or limit.
ListDocuments(p, include_flags, filter_sets) ==
    /\ pc[p] = "idle"
    /\ \E include_deleted \in include_flags, filters \in filter_sets :
        LET op == "list_documents"
            args == [include_deleted |-> include_deleted, filters |-> filters]
        IN  \/ Return(p, op, args,
                      list_documents(docs, include_deleted, None, "created_at", TRUE,
                                     filters, None, None))
            \/ Raise(p, op, args, "MetadataManagerError", "database_error")
    /\ UNCHANGED <<content_type, docs, blobs, now, next_id>>

\* ------------------------------------------------------------- specifications
\* The record lifecycle, one caller, every kind: upload, soft and hard delete, restore.  Uploads share one storage key.
LifeNext ==
    \/ Tick
    \/ \E p \in {"c1"} : UploadBlob(p, Uploads(content_type, {ContentA}, {Dt(1)}, {Dt(1)}))
    \/ \E p \in {"c1"} : UploadCreate(p)
    \/ \E p \in {"c1"} : DelRead(p, BOOLEAN)
    \/ \E p \in {"c1"} : DelExists(p)
    \/ \E p \in {"c1"} : DelBlob(p)
    \/ \E p \in {"c1"} : DelDoc(p)
    \/ \E p \in {"c1"} : SoftDelete(p)
    \/ \E p \in {"c1"} : SdGet(p)
    \/ \E p \in {"c1"} : SdWrite(p)
    \/ \E p \in {"c1"} : RestoreContent(p)
    \/ \E p \in {"c1"} : RsGet(p)
    \/ \E p \in {"c1"} : RsWrite(p)

LifeInit == InitWith(Kinds)
LifeSpec == LifeInit /\ [][LifeNext]_vars

\* Metadata updates, one caller, every kind: upload, update_metadata (one field, and no
\* field at all) and soft delete.
UpdateSets == {[title |-> Str(<<"N">>)], <<>>}

UpdNext ==
    \/ Tick
    \/ \E p \in {"c1"} : UploadBlob(p, Uploads(content_type, {ContentA}, {Dt(1)}, {Dt(1)}))
    \/ \E p \in {"c1"} : UploadCreate(p)
    \/ \E p \in {"c1"} : UpdateMetadata(p, UpdateSets)
    \/ \E p \in {"c1"} : UdGet(p)
    \/ \E p \in {"c1"} : UdWrite(p)
    \/ \E p \in {"c1"} : UdRead(p)
    \/ \E p \in {"c1"} : DelRead(p, {FALSE})
    \/ \E p \in {"c1"} : SdGet(p)
    \/ \E p \in {"c1"} : SdWrite(p)

UpdInit == InitWith(Kinds)
UpdSpec == UpdInit /\ [][UpdNext]_vars

\* Content replacement, one caller, every kind: upload of one byte, then update_content
\* with a str whose encoding is two bytes.
ReplNext ==
    \/ Tick
    \/ \E p \in {"c1"} : UploadBlob(p, Uploads(content_type, {ContentA}, {Dt(1)}, {None}))
    \/ \E p \in {"c1"} : UploadCreate(p)
    \/ \E p \in {"c1"} : UcRead(p, {ContentE})
    \/ \E p \in {"c1"} : UcBlob(p)
    \/ \E p \in {"c1"} : UdGet(p)
    \/ \E p \in {"c1"} : UdWrite(p)
    \/ \E p \in {"c1"} : UdRead(p)

ReplInit == InitWith(Kinds)
ReplSpec == ReplInit /\ [][ReplNext]_vars

\* Updates against soft delete, two callers: c1 uploads and updates (metadata and
\* tags) while c2 soft-deletes.
RaceNext ==
    \/ Tick
    \/ \E p \in {"c1"} : UploadBlob(p, Uploads(content_type, {ContentA}, {Dt(1)}, {Dt(1)}))
    \/ \E p \in {"c1"} : UploadCreate(p)
    \/ \E p \in {"c1"} : UpdateMetadata(p, {[title |-> Str(<<"N">>)]})
    \/ \E p \in {"c1"} : UtRead(p, {<<TagU>>}, {"add"})
    \/ \E p \in {"c1"} : UdGet(p)
    \/ \E p \in {"c1"} : UdWrite(p)
    \/ \E p \in {"c1"} : UdRead(p)
    \/ \E p \in {"c2"} : DelRead(p, {FALSE})
    \/ \E p \in {"c2"} : SdGet(p)
    \/ \E p \in {"c2"} : SdWrite(p)

RaceInit == InitWith(Kinds)
RaceSpec == RaceInit /\ [][RaceNext]_vars

\* upload_new_content of one byte, at most MaxBusyDocs times over a behaviour.
BusyUpload(p) ==
    /\ next_id <= MaxBusyDocs
    /\ UploadBlob(p, Uploads(content_type, {ContentA}, {Dt(1)}, {Dt(1)}))

\* Content replacement against soft delete, two callers: c1 uploads and replaces the
\* byte with a str of two bytes while c2 soft-deletes.  c1 is the only caller that
\* writes blobs.
ReplRaceNext ==
    \/ Tick
    \/ \E p \in {"c1"} : BusyUpload(p)
    \/ \E p \in {"c1"} : UploadCreate(p)
    \/ \E p \in {"c1"} : UcRead(p, {ContentE})
    \/ \E p \in {"c1"} : UcBlob(p)
    \/ \E p \in {"c1"} : UdGet(p)
    \/ \E p \in {"c1"} : UdWrite(p)
    \/ \E p \in {"c1"} : UdRead(p)
    \/ \E p \in {"c2"} : DelRead(p, {FALSE})
    \/ \E p \in {"c2"} : SdGet(p)
    \/ \E p \in {"c2"} : SdWrite(p)

ReplRaceInit == InitWith(Kinds)
ReplRaceSpec == ReplRaceInit /\ [][ReplRaceNext]_vars

\* Validation, one caller, every kind: uploads with a valid and with invalid file
\* names and metadata, update_metadata with and without a protected field.
SlashFile(kind) == <<"x", "/">> \o KindFile(kind)
ExeFile == <<"a", ".", "e", "x", "e">>

BadMetadata(kind) ==
    { Str(<<"m">>),
      Dict([description |-> Str(<<"D">>)]),
      Dict(Merge(KindMetadata(kind).d, [bogus |-> Str(<<"b">>)])),
      Dict(Merge(KindMetadata(kind).d, [tags |-> Str(<<"t">>)])),
      Dict(Merge(KindMetadata(kind).d, [created_date |-> Str(<<"2","0","2","4">>)])) }

\* The valid file with every metadata, every file with the valid metadata, and one
\* upload with both invalid.
ValidationUploads(kind) ==
    { [filename |-> x[1], content |-> ContentA, metadata |-> x[2], date |-> Dt(1),
       creation_date |-> None] :
         x \in ({KindFile(kind)} \X ({KindMetadata(kind)} \cup BadMetadata(kind)))
               \cup ({SlashFile(kind), ExeFile, <<>>} \X {KindMetadata(kind)})
               \cup {<<ExeFile, Str(<<"m">>)>>} }

ProtectedNames == {"id", "created_at", "gcs_path", "blob_path", "bucket", "content_type"}

ValidationUpdates ==
    {[title |-> Str(<<"N">>)]}
    \cup {(f :> Str(<<"x">>)) : f \in ProtectedNames}
    \cup {(f :> Str(<<"x">>)) @@ [title |-> Str(<<"N">>)] : f \in ProtectedNames}

ValidUpload(p) ==
    UploadBlob(p, {a \in ValidationUploads(content_type) :
                      \/ next_id <= MaxBusyDocs
                      \/ a.filename # KindFile(content_type)
                      \/ a.metadata # KindMetadata(content_type)})

ValidNext ==
    \/ Tick
    \/ \E p \in {"c1"} : ValidUpload(p)
    \/ \E p \in {"c1"} : UploadCreate(p)
    \/ \E p \in {"c1"} : UpdateMetadata(p, ValidationUpdates)
    \/ \E p \in {"c1"} : UdGet(p)
    \/ \E p \in {"c1"} : UdWrite(p)
    \/ \E p \in {"c1"} : UdRead(p)

ValidInit == InitWith(Kinds)
ValidSpec == ValidInit /\ [][ValidNext]_vars

\* One allowed update and one update per protected name.
IdentityUpdates ==
    {[title |-> Str(<<"N">>)]} \cup {(f :> Str(<<"x">>)) : f \in ProtectedNames}

\* Every operation that writes, one caller, every kind: upload, update_content,
\* update_metadata (with and without protected fields), update_content_tags, soft and
\* hard delete, restore; all within one tick of the clock.
AllNext ==
    \/ \E p \in {"c1"} : BusyUpload(p)
    \/ \E p \in {"c1"} : UploadCreate(p)
    \/ \E p \in {"c1"} : UcRead(p, {ContentE})
    \/ \E p \in {"c1"} : UcBlob(p)
    \/ \E p \in {"c1"} : UpdateMetadata(p, IdentityUpdates)
    \/ \E p \in {"c1"} : UtRead(p, {<<TagU>>}, {"add"})
    \/ \E p \in {"c1"} : UdGet(p)
    \/ \E p \in {"c1"} : UdWrite(p)
    \/ \E p \in {"c1"} : UdRead(p)
    \/ \E p \in {"c1"} : DelRead(p, BOOLEAN)
    \/ \E p \in {"c1"} : DelExists(p)
    \/ \E p \in {"c1"} : DelBlob(p)
    \/ \E p \in {"c1"} : DelDoc(p)
    \/ \E p \in {"c1"} : SdGet(p)
    \/ \E p \in {"c1"} : SdWrite(p)
    \/ \E p \in {"c1"} : RestoreContent(p)
    \/ \E p \in {"c1"} : RsGet(p)
    \/ \E p \in {"c1"} : RsWrite(p)

AllInit == InitWith(Kinds)
AllSpec == AllInit /\ [][AllNext]_vars

\* Tag updates, one caller, every kind: each operation name, one of them invalid,
\* with an argument that repeats a tag and one that is out of order.
TagArgs == {<<TagU, TagT>>, <<TagU, TagU>>}
TagOperations == {"set", "add", "remove", "replace"}

TagNext ==
    \/ Tick
    \/ \E p \in {"c1"} : BusyUpload(p)
    \/ \E p \in {"c1"} : UploadCreate(p)
    \/ \E p \in {"c1"} : UtRead(p, TagArgs, TagOperations)
    \/ \E p \in {"c1"} : UdGet(p)
    \/ \E p \in {"c1"} : UdWrite(p)
    \/ \E p \in {"c1"} : UdRead(p)

TagInit == InitWith(Kinds)
TagSpec == TagInit /\ [][TagNext]_vars

\* Writes of the tags field, one caller, every kind: uploads whose tags list repeats
\* a tag, update_metadata with a str and with a repeating list for tags, and
\* update_content_tags.
TagTypeUploads(kind) ==
    { [filename |-> KindFile(kind), content |-> ContentA, metadata |-> m, date |-> Dt(1),
       creation_date |-> Dt(1)] :
      m \in {KindMetadata(kind),
             Dict(Merge(KindMetadata(kind).d, [tags |-> List(<<TagT, TagT>>)]))} }

TagTypeUpdates ==
    {[tags |-> List(<<TagU>>)], [tags |-> List(<<TagU, TagU>>)], [tags |-> Str(<<"x">>)]}

TagTypeUpload(p) ==
    /\ next_id <= MaxBusyDocs
    /\ UploadBlob(p, TagTypeUploads(content_type))

TagTypeNext ==
    \/ Tick
    \/ \E p \in {"c1"} : TagTypeUpload(p)
    \/ \E p \in {"c1"} : UploadCreate(p)
    \/ \E p \in {"c1"} : UpdateMetadata(p, TagTypeUpdates)
    \/ \E p \in {"c1"} : UtRead(p, {<<TagU>>}, {"add"})
    \/ \E p \in {"c1"} : UdGet(p)
    \/ \E p \in {"c1"} : UdWrite(p)
    \/ \E p \in {"c1"} : UdRead(p)

TagTypeInit == InitWith(Kinds)
TagTypeSpec == TagTypeInit /\ [][TagTypeNext]_vars

\* Pages of a collection, one caller, every kind. The collection holds up to MaxListed
\* documents uploaded on successive ticks of a clock that wraps, of which none, every
\* second or every third one is soft-deleted.
ListedDoc(kind, id, created, deleted) ==
    LET file_path == _generate_file_path(kind, KindFile(kind), Dt(created), Dt(created)).path
        l == [metadata |-> KindMetadata(kind).d, file_path |-> file_path,
              content |-> Encode(ContentA), mime |-> get_mime_type(kind, KindFile(kind))]
        doc == create_document(content_data(kind, l, Dt(created)), None, id, Dt(created))
    IN  IF deleted THEN Merge(doc, soft_delete_fields(Dt(MaxClock))) ELSE doc

DeletedEvery == {0, 2, 3}
PerPages == {IntV(1), IntV(5), IntV(20)}
Pages == {IntV(n) : n \in 1..MaxPage}

ListInit ==
    /\ content_type \in Kinds
    /\ \E n \in 0..MaxListed, every \in DeletedEvery :
         docs = [i \in 1..n |-> ListedDoc(content_type, i, (i % MaxClock) + 1,
                                          every > 0 /\ i % every = 0)]
    /\ blobs = [k \in {BlobKey(docs[i]["bucket"].s, docs[i]["blob_path"].s) : i \in DOMAIN docs} |->
                 [data |-> Encode(ContentA),
                  content_type |-> get_mime_type(content_type, KindFile(content_type))]]
    /\ now = MaxClock
    /\ next_id = Len(docs) + 1
    /\ pc = [p \in Procs |-> "idle"]
    /\ loc = [p \in Procs |-> None]
    /\ last = NoCall

ListNext ==
    \E p \in {"c1"} : ListContent(p, {<<>>}, Pages, PerPages, {Desc, Asc})

ListSpec == ListInit /\ [][ListNext]_vars

\* Filtered lists, one caller, every kind. Of the documents of the collection every
\* second one is soft-deleted, two of every four carry the tag u and four of every
\* eight have had their title updated (for images, set).
Updated(kind, doc, updates, utcnow) ==
    update_write(doc,
                 IF "last_modified" \in CONTENT_TYPES(kind).required_metadata
                 THEN Merge(updates, [last_modified |-> utcnow]) ELSE updates,
                 utcnow)

VariedDoc(kind, id) ==
    LET base == ListedDoc(kind, id, (id % MaxClock) + 1, FALSE)
        tagged == IF (id \div 2) % 2 = 1
                  THEN Updated(kind, base, [tags |-> List(<<TagT, TagU>>)], Dt(MaxClock))
                  ELSE base
        titled == IF (id \div 4) % 2 = 1
                  THEN Updated(kind, tagged, [title |-> Str(<<"N">>)], Dt(MaxClock))
                  ELSE tagged
    IN  IF id % 2 = 0 THEN Merge(titled, soft_delete_fields(Dt(MaxClock))) ELSE titled

TagFilter == <<"tags", "array_contains", TagU>>
TitleFilter == <<"title", "==", Str(<<"N">>)>>
FilterTuples == {<<>>, <<TagFilter>>, <<TitleFilter>>, <<TagFilter, TitleFilter>>}
FilterDicts ==
    {[k \in 1..Len(fs) |-> [field |-> fs[k][1], op |-> fs[k][2], value |-> fs[k][3]]] :
        fs \in FilterTuples}

FilterInit ==
    /\ content_type \in Kinds
    /\ \E n \in 0..MaxListed : docs = [i \in 1..n |-> VariedDoc(content_type, i)]
    /\ blobs = [k \in {BlobKey(docs[i]["bucket"].s, docs[i]["blob_path"].s) : i \in DOMAIN docs} |->
                 [data |-> Encode(ContentA),
                  content_type |-> get_mime_type(content_type, KindFile(content_type))]]
    /\ now = MaxClock
    /\ next_id = Len(docs) + 1
    /\ pc = [p \in Procs |-> "idle"]
    /\ loc = [p \in Procs |-> None]
    /\ last = NoCall

FilterNext ==
    \/ \E p \in {"c1"} : ListContent(p, FilterTuples, {IntV(1), IntV(2)}, {IntV(5), IntV(20)}, {Desc})
    \/ \E p \in {"c1"} : ListDocuments(p, BOOLEAN, FilterDicts)

FilterSpec == FilterInit /\ [][FilterNext]_vars

\* Tag aggregation, one caller, every kind: uploads with the tags t or u and t, soft
\* delete, restore, and the two aggregations.
AvailUploads(kind) ==
    { [filename |-> KindFile(kind), content |-> ContentA, metadata |-> m, date |-> Dt(1),
       creation_date |-> Dt(1)] :
      m \in {KindMetadata(kind),
             Dict(Merge(KindMetadata(kind).d, [tags |-> List(<<TagU, TagT>>)]))} }

AvailNext ==
    \/ Tick
    \/ \E p \in {"c1"} : UploadBlob(p, AvailUploads(content_type))
    \/ \E p \in {"c1"} : UploadCreate(p)
    \/ \E p \in {"c1"} : DelRead(p, {FALSE})
    \/ \E p \in {"c1"} : SdGet(p)
    \/ \E p \in {"c1"} : SdWrite(p)
    \/ \E p \in {"c1"} : RestoreContent(p)
    \/ \E p \in {"c1"} : RsGet(p)
    \/ \E p \in {"c1"} : RsWrite(p)
    \/ \E p \in {"c1"} : GetAvailableTags(p)
    \/ \E p \in {"c1"} : GetDistinctTags(p, BOOLEAN)

AvailInit == InitWith(Kinds)
AvailSpec == AvailInit /\ [][AvailNext]_vars

\* Metadata validation, every kind: every dict over the fields below, each absent or
\* with one of its values, and three arguments that are no dict.
Absent == [t |-> "absent"]
\* A set of strs, and a list of ints (each written as its digits).
SetV(S) == [t |-> "set", s |-> S]
IntList(l) == [t |-> "list", of |-> "int", l |-> l]

MetadataChoices ==
    [title : {Absent, Str(<<"T">>)},
     description : {Absent, Str(<<"D">>)},
     tags : {Absent, List(<<TagT>>), SetV({TagT}), IntList(<<Digits(1)>>), Str(<<"t">>)},
     taken_at : {Absent, Dt(1), Str(<<"2","0","2","4">>)},
     created_date : {Absent, Dt(1), Str(<<"2","0","2","4">>)},
     last_modified : {Absent, Dt(1)},
     bogus : {Absent, Str(<<"b">>)}]

Metadatas ==
    {Dict([f \in {g \in DOMAIN c : c[g] # Absent} |-> c[f]]) : c \in MetadataChoices}
    \cup {None, Str(<<"m">>), List(<<>>)}

MetaNext ==
    \E p \in {"c1"} : ValidateMetadata(p, Metadatas)

MetaInit == InitWith(Kinds)
MetaSpec == MetaInit /\ [][MetaNext]_vars

\* Path derivation, every kind: the kind's file name, names with a slash, the empty
\* name and a name with a backslash; no date, a tick of the clock, and calendar dates
\* with one-, two-, three- and four-digit fields.
PathFilenames(kind) ==
    {KindFile(kind), SlashFile(kind), <<>>, <<"/">>, <<"s", "u", "b", "/">>,
     <<"a", "\\", "b">>, <<"a", " ", "b">>}

PathDates ==
    {None, Dt(1)} \cup {Date(y, m, d) : y \in {987, 2024}, m \in {3, 12}, d \in {5, 31}}

PathNext ==
    \/ Tick
    \/ \E p \in {"c1"} : GenerateFilePath(p, PathFilenames(content_type), PathDates)

PathInit == InitWith(Kinds)
PathSpec == PathInit /\ [][PathNext]_vars

\* Every operation that writes updated_at, one caller, every kind, with the clock:
\* upload, update_content, update_metadata, update_content_tags, soft delete and
\* restore, with arguments that give the other fields the values they have (for
\* images, update_metadata adds a description).
StampNext ==
    \/ Tick
    \/ \E p \in {"c1"} : BusyUpload(p)
    \/ \E p \in {"c1"} : UploadCreate(p)
    \/ \E p \in {"c1"} : UcRead(p, {ContentA})
    \/ \E p \in {"c1"} : UcBlob(p)
    \/ \E p \in {"c1"} : UpdateMetadata(p, {[description |-> Str(<<"D">>)]})
    \/ \E p \in {"c1"} : UtRead(p, {<<TagT>>}, {"add"})
    \/ \E p \in {"c1"} : UdGet(p)
    \/ \E p \in {"c1"} : UdWrite(p)
    \/ \E p \in {"c1"} : UdRead(p)
    \/ \E p \in {"c1"} : DelRead(p, {FALSE})
    \/ \E p \in {"c1"} : SdGet(p)
    \/ \E p \in {"c1"} : SdWrite(p)
    \/ \E p \in {"c1"} : RestoreContent(p)
    \/ \E p \in {"c1"} : RsGet(p)
    \/ \E p \in {"c1"} : RsWrite(p)

StampInit == InitWith(Kinds)
StampSpec == StampInit /\ [][StampNext]_vars

\* Creation, one caller, every kind, with the clock: uploads with and without a
\* creation date, and get_content.
CreateNext ==
    \/ Tick
    \/ \E p \in {"c1"} : UploadBlob(p, Uploads(content_type, {ContentA}, {Dt(1)}, {None, Dt(1)}))
    \/ \E p \in {"c1"} : UploadCreate(p)
    \/ \E p \in {"c1"} : GetContent(p)

CreateInit == InitWith(Kinds)
CreateSpec == CreateInit /\ [][CreateNext]_vars

\* The store's hard delete, one caller, every kind, with the clock: uploads, soft
\* delete and hard delete called directly, on live, soft-deleted and absent ids.
HardNext ==
    \/ Tick
    \/ \E p \in {"c1"} : UploadBlob(p, Uploads(content_type, {ContentA}, {Dt(1)}, {Dt(1)}))
    \/ \E p \in {"c1"} : UploadCreate(p)
    \/ \E p \in {"c1"} : SoftDelete(p)
    \/ \E p \in {"c1"} : SdGet(p)
    \/ \E p \in {"c1"} : SdWrite(p)
    \/ \E p \in {"c1"} : HardDelete(p)

HardInit == InitWith(Kinds)
HardSpec == HardInit /\ [][HardNext]_vars

\* Concurrent uploads, two callers, every kind: both upload the kind's file for the
\* same date, with contents of different lengths.
UploadRaceNext ==
    \/ Tick
    \/ \E p \in Procs : UploadBlob(p, Uploads(content_type, {ContentA, ContentE}, {Dt(1)}, {Dt(1)}))
    \/ \E p \in Procs : UploadCreate(p)

UploadRaceInit == InitWith(Kinds)
UploadRaceSpec == UploadRaceInit /\ [][UploadRaceNext]_vars

\* Concurrent metadata updates, two callers, every kind: after one upload both callers
\* update the record, one writing title and description, the other the title alone.
\* Nothing deletes, so every record stays live.
RaceUpdates(p) ==
    IF p = "c1" THEN {[title |-> Str(<<"N">>), description |-> Str(<<"X">>)]}
    ELSE {[title |-> Str(<<"M">>)]}

UpdateRaceNext ==
    \/ Tick
    \/ \E p \in {"c1"} : BusyUpload(p)
    \/ \E p \in {"c1"} : UploadCreate(p)
    \/ \E p \in Procs : UpdateMetadata(p, RaceUpdates(p))
    \/ \E p \in Procs : UdGet(p)
    \/ \E p \in Procs : UdWrite(p)
    \/ \E p \in Procs : UdRead(p)

UpdateRaceInit == InitWith(Kinds)
UpdateRaceSpec == UpdateRaceInit /\ [][UpdateRaceNext]_vars

\* The record an upload creates, one caller, every kind: files of each MIME type of
\* the kind, bytes with a path date and a str without one, at most MaxBusyDocs records.
PngFile == <<"b",".","p","n","g">>
RecordFiles(kind) == IF kind = "images" THEN {KindFile(kind), PngFile} ELSE {KindFile(kind)}

RecordUploads(kind) ==
    { [filename |-> f, content |-> x[1], metadata |-> KindMetadata(kind), date |-> x[2],
       creation_date |-> None] :
         f \in RecordFiles(kind), x \in {<<ContentA, Dt(1)>>, <<ContentE, None>>} }

RecordNext ==
    \/ Tick
    \/ \E p \in {"c1"} : next_id <= MaxBusyDocs /\ UploadBlob(p, RecordUploads(content_type))
    \/ \E p \in {"c1"} : UploadCreate(p)

RecordInit == InitWith(Kinds)
RecordSpec == RecordInit /\ [][RecordNext]_vars

\* One item from upload to restore, one caller, every kind: upload with tags ["t"],
\* get_content, update_content_tags adding "u", soft delete through delete_content,
\* restore_content, in any order and any number of times.
JourneyNext ==
    \/ Tick
    \/ \E p \in {"c1"} : BusyUpload(p)
    \/ \E p \in {"c1"} : UploadCreate(p)
    \/ \E p \in {"c1"} : GetContent(p)
    \/ \E p \in {"c1"} : UtRead(p, {<<TagU>>}, {"add"})
    \/ \E p \in {"c1"} : UdGet(p)
    \/ \E p \in {"c1"} : UdWrite(p)
    \/ \E p \in {"c1"} : UdRead(p)
    \/ \E p \in {"c1"} : DelRead(p, {FALSE})
    \/ \E p \in {"c1"} : SdGet(p)
    \/ \E p \in {"c1"} : SdWrite(p)
    \/ \E p \in {"c1"} : RestoreContent(p)
    \/ \E p \in {"c1"} : RsGet(p)
    \/ \E p \in {"c1"} : RsWrite(p)

JourneyInit == InitWith(Kinds)
JourneySpec == JourneyInit /\ [][JourneyNext]_vars

\* Behaviours in which no remote call fails: a step is kept when the call it finishes,
\* if any, was not ended by a failure of the store or the bucket.
RemoteFailures == {"database_error", "storage_error", "update_of_missing"}
NoFailure(r) == r.cause \notin RemoteFailures

\* Records that share a storage key, one caller, every kind, no remote failure:
\* uploads of the kind's file for one date, update_content, soft and hard delete,
\* restore.
SharedKeyNext ==
    \/ Tick
    \/ \E p \in {"c1"} : UploadBlob(p, Uploads(content_type, {ContentA}, {Dt(1)}, {Dt(1)})) /\ NoFailure(last')
    \/ \E p \in {"c1"} : UploadCreate(p) /\ NoFailure(last')
    \/ \E p \in {"c1"} : UcRead(p, {ContentE}) /\ NoFailure(last')
    \/ \E p \in {"c1"} : UcBlob(p) /\ NoFailure(last')
    \/ \E p \in {"c1"} : UdGet(p) /\ NoFailure(last')
    \/ \E p \in {"c1"} : UdWrite(p) /\ NoFailure(last')
    \/ \E p \in {"c1"} : UdRead(p) /\ NoFailure(last')
    \/ \E p \in {"c1"} : DelRead(p, BOOLEAN) /\ NoFailure(last')
    \/ \E p \in {"c1"} : DelExists(p) /\ NoFailure(last')
    \/ \E p \in {"c1"} : DelBlob(p) /\ NoFailure(last')
    \/ \E p \in {"c1"} : DelDoc(p) /\ NoFailure(last')
    \/ \E p \in {"c1"} : SdGet(p) /\ NoFailure(last')
    \/ \E p \in {"c1"} : SdWrite(p) /\ NoFailure(last')
    \/ \E p \in {"c1"} : RestoreContent(p) /\ NoFailure(last')
    \/ \E p \in {"c1"} : RsGet(p) /\ NoFailure(last')
    \/ \E p \in {"c1"} : RsWrite(p) /\ NoFailure(last')

SharedKeyInit == InitWith(Kinds)
SharedKeySpec == SharedKeyInit /\ [][SharedKeyNext]_vars

\* Sizes, one caller, every kind, no remote failure: uploads of bytes and of a str for
\* one of two dates, so that records may share a key or not, and update_content with
\* either content.
SizeNext ==
    \/ \E p \in {"c1"} : UploadBlob(p, Uploads(content_type, {ContentA, ContentE}, {Dt(1), Dt(2)}, {Dt(1)}))
                         /\ NoFailure(last')
    \/ \E p \in {"c1"} : UploadCreate(p) /\ NoFailure(last')
    \/ \E p \in {"c1"} : UcRead(p, {ContentA, ContentE}) /\ NoFailure(last')
    \/ \E p \in {"c1"} : UcBlob(p) /\ NoFailure(last')
    \/ \E p \in {"c1"} : UdGet(p) /\ NoFailure(last')
    \/ \E p \in {"c1"} : UdWrite(p) /\ NoFailure(last')
    \/ \E p \in {"c1"} : UdRead(p) /\ NoFailure(last')

SizeInit == InitWith(Kinds)
SizeSpec == SizeInit /\ [][SizeNext]_vars

\* Updates that name deleted_at, one caller, every kind: update_metadata with a title,
\* with a deleted_at datetime and with deleted_at None, update_content_tags and
\* update_content, beside soft delete and restore.
TombstoneUpdates == {[title |-> Str(<<"N">>)], [deleted_at |-> Dt(1)], [deleted_at |-> None]}

TombstoneNext ==
    \/ Tick
    \/ \E p \in {"c1"} : BusyUpload(p)
    \/ \E p \in {"c1"} : UploadCreate(p)
    \/ \E p \in {"c1"} : UpdateMetadata(p, TombstoneUpdates)
    \/ \E p \in {"c1"} : UtRead(p, {<<TagU>>}, {"add"})
    \/ \E p \in {"c1"} : UcRead(p, {ContentE})
    \/ \E p \in {"c1"} : UcBlob(p)
    \/ \E p \in {"c1"} : UdGet(p)
    \/ \E p \in {"c1"} : UdWrite(p)
    \/ \E p \in {"c1"} : UdRead(p)
    \/ \E p \in {"c1"} : DelRead(p, {FALSE})
    \/ \E p \in {"c1"} : SdGet(p)
    \/ \E p \in {"c1"} : SdWrite(p)
    \/ \E p \in {"c1"} : RestoreContent(p)
    \/ \E p \in {"c1"} : RsGet(p)
    \/ \E p \in {"c1"} : RsWrite(p)

TombstoneInit == InitWith(Kinds)
TombstoneSpec == TombstoneInit /\ [][TombstoneNext]_vars

\* Concurrent tag additions, two callers, every kind, no remote failure: after one
\* upload with tags ["t"], c1 adds "u" and c2 adds "v"; nothing removes a tag or a record.
TagV == <<"v">>
RaceTags(p) == IF p = "c1" THEN {<<TagU>>} ELSE {<<TagV>>}

TagRaceNext ==
    \/ Tick
    \/ \E p \in {"c1"} : BusyUpload(p) /\ NoFailure(last')
    \/ \E p \in {"c1"} : UploadCreate(p) /\ NoFailure(last')
    \/ \E p \in Procs : UtRead(p, RaceTags(p), {"add"}) /\ NoFailure(last')
    \/ \E p \in Procs : UdGet(p) /\ NoFailure(last')
    \/ \E p \in Procs : UdWrite(p) /\ NoFailure(last')
    \/ \E p \in Procs : UdRead(p) /\ NoFailure(last')

TagRaceInit == InitWith(Kinds)
TagRaceSpec == TagRaceInit /\ [][TagRaceNext]_vars

\* Pages of filtered lists, one caller, every kind: the collection of the filtered
\* lists, listed without a filter and by tag, in both orders, page by page.
PartitionPerPages == {IntV(2), IntV(5)}

PartitionNext ==
    \E p \in {"c1"} : ListContent(p, {<<>>, <<TagFilter>>}, Pages, PartitionPerPages, {Desc, Asc})

PartitionInit == FilterInit
PartitionSpec == PartitionInit /\ [][PartitionNext]_vars

\* ------------------------------------------------------------- properties
SoftDeleteCall(r) ==
    \/ r.op = "soft_delete"
    \/ r.op = "delete_content" /\ ~r.args.hard_delete

\* C1: right after a successful soft delete of a record, read_document without
\* include_deleted returns None for its id and with include_deleted returns the record
\* with deleted_at set; right after a successful restore, read_document without
\* include_deleted returns the record with deleted_at None.
C1_SoftDeleteRestoreVisibility ==
    /\ (SoftDeleteCall(last) /\ last.ok) =>
          /\ read_document(docs, last.args.id, FALSE) = None
          /\ read_document(docs, last.args.id, TRUE) # None
          /\ read_document(docs, last.args.id, TRUE)["deleted_at"].t = "datetime"
    /\ (last.op = "restore_content" /\ last.ok) =>
          /\ read_document(docs, last.args.id, FALSE) # None
          /\ read_document(docs, last.args.id, FALSE)["deleted_at"] = None

\* A restore has just succeeded (on a record a soft delete had tombstoned).
C1_Witness ==
    /\ last.op = "restore_content" /\ last.ok
    /\ last.args.id \in DOMAIN docs
    /\ docs[last.args.id]["deleted_at"] = None

\* The storage key upload_new_content derives for the arguments of a finished upload.
UploadKey(r) ==
    BlobKey(get_bucket_name,
            _generate_file_path(content_type, r.args.filename, r.args.date, Dt(now)).path)

\* C2: when the blob write of upload_new_content fails, the call reports failure and
\* the collection is unchanged (no document, no id used); and whenever an upload does
\* create a document, the blob it wrote is stored at the document's key.
C2_BlobWriteFailureCreatesNoRecord ==
    [][ /\ (last'.op = "upload_new_content" /\ last'.cause = "storage_error") =>
              (~last'.ok /\ docs' = docs /\ next_id' = next_id)
        /\ \A p \in Procs :
              (pc[p] = "upload_create" /\ docs' # docs) =>
                  /\ BlobKey(get_bucket_name, loc[p].file_path) \in DOMAIN blobs
                  /\ blobs[BlobKey(get_bucket_name, loc[p].file_path)].data = loc[p].content
      ]_vars

\* An upload has just failed at its blob write.
C2_Witness ==
    /\ last.op = "upload_new_content"
    /\ last.cause = "storage_error"
    /\ ~last.ok

\* C3 as stated: after an upload failed at create_document, no document of the
\* collection references the key the blob was written at.
C3_NoRecordReferencesBlob ==
    (last.op = "upload_new_content" /\ last.cause = "database_error") =>
        /\ ~last.ok
        /\ UploadKey(last) \in DOMAIN blobs
        /\ \A id \in DOMAIN docs :
              BlobKey(docs[id]["bucket"].s, docs[id]["blob_path"].s) # UploadKey(last)

\* C3 amended: when create_document fails after the blob write succeeded, the call
\* reports failure, the blob stays stored at the derived key with the uploaded bytes
\* (the bucket is not touched again), and the call has created no document: neither
\* its blob write nor its failed create changes the collection.
C3_CreateFailureLeavesBlob ==
    [][ \A p \in Procs :
          /\ (pc[p] = "idle" /\ pc'[p] = "upload_create") => (docs' = docs /\ next_id' = next_id)
          /\ (pc[p] = "upload_create" /\ last'.caller = p /\ ~last'.ok) =>
                /\ last'.op = "upload_new_content"
                /\ blobs' = blobs
                /\ BlobKey(get_bucket_name, loc[p].file_path) \in DOMAIN blobs'
                /\ blobs'[BlobKey(get_bucket_name, loc[p].file_path)].data = loc[p].content
                /\ docs' = docs
                /\ next_id' = next_id
      ]_vars

\* An upload has just failed at create_document and left a blob that no document
\* references.
C3_Witness ==
    /\ last.op = "upload_new_content"
    /\ last.cause = "database_error"
    /\ UploadKey(last) \in DOMAIN blobs
    /\ \A id \in DOMAIN docs :
          BlobKey(docs[id]["bucket"].s, docs[id]["blob_path"].s) # UploadKey(last)

\* C4: delete_content with hard_delete on an existing record, live or soft-deleted,
\* is never refused as not found; the blob is deleted before the document (while the
\* document is still there), and the document is deleted only once no blob is at its
\* key; after success read_document returns None for the id, with include_deleted
\* too, and no blob is at the record's key.
C4_HardDeleteRemovesBlobAndRecord ==
    [][ \A p \in Procs :
          /\ (pc[p] = "idle" /\ last'.caller = p /\ last'.op = "delete_content"
                /\ last'.args.hard_delete /\ last'.cause = "not_found") =>
                last'.args.id \notin DOMAIN docs
          /\ (pc[p] = "del_blob" /\ blobs' # blobs) =>
                /\ docs' = docs
                /\ blobs' = Remove(blobs, BlobKey(loc[p].bucket, loc[p].blob_path))
          /\ (pc[p] = "del_doc" /\ docs' # docs) =>
                BlobKey(loc[p].bucket, loc[p].blob_path) \notin DOMAIN blobs
          /\ (pc[p] # "idle" /\ last'.caller = p /\ last'.op = "delete_content"
                /\ last'.args.hard_delete /\ last'.ok) =>
                /\ read_document(docs', loc[p].id, TRUE) = None
                /\ read_document(docs', loc[p].id, FALSE) = None
                /\ BlobKey(loc[p].bucket, loc[p].blob_path) \notin DOMAIN blobs'
      ]_vars

\* A hard delete has just succeeded: the record is gone and so is every blob.
C4_Witness ==
    /\ last.op = "delete_content"
    /\ last.ok
    /\ last.args.hard_delete
    /\ last.args.id \notin DOMAIN docs
    /\ DOMAIN blobs = {}

\* C5: no step of a soft delete (delete_content without hard_delete, or soft_delete
\* itself) changes the bucket.
C5_SoftDeleteLeavesBlobs ==
    [][ \A p \in Procs :
          /\ (pc[p] # "idle" /\ SoftDeleteCall(loc[p])) => blobs' = blobs
          /\ (pc[p] = "idle" /\ pc'[p] # "idle" /\ SoftDeleteCall(loc'[p])) => blobs' = blobs
      ]_vars

\* A delete_content without hard_delete has just succeeded and the record's blob is
\* still stored.
C5_Witness ==
    /\ last.op = "delete_content"
    /\ ~last.args.hard_delete
    /\ last.ok
    /\ last.args.id \in DOMAIN docs
    /\ BlobKey(docs[last.args.id]["bucket"].s, docs[last.args.id]["blob_path"].s)
          \in DOMAIN blobs

\* C6: when soft_delete has read the document (the read itself not failing), it fails
\* with "already deleted" on a record whose deleted_at is set and with "not found" on
\* an absent id, and in both cases the collection is unchanged.
C6_SoftDeleteNotIdempotent ==
    [][ \A p \in Procs :
          (pc[p] = "sd_get" /\ pc'[p] # "sd_get" /\ last'.cause # "database_error") =>
              /\ loc[p].id \notin DOMAIN docs =>
                    /\ last'.caller = p /\ ~last'.ok /\ last'.cause = "not_found"
                    /\ docs' = docs
              /\ (loc[p].id \in DOMAIN docs /\ docs[loc[p].id]["deleted_at"] # None) =>
                    /\ last'.caller = p /\ ~last'.ok /\ last'.cause = "already_deleted"
                    /\ docs' = docs
      ]_vars

\* A soft delete of a soft-deleted record has just been refused.
C6_Witness ==
    /\ SoftDeleteCall(last)
    /\ last.cause = "already_deleted"
    /\ docs[last.args.id]["deleted_at"] # None

\* C7: when restore_document has read the document (the read itself not failing), it
\* fails with "not found" on an absent id and with "not deleted" on a record whose
\* deleted_at is None, in both cases leaving the collection unchanged; a restore that
\* succeeds acted on a soft-deleted record and leaves its deleted_at None.
C7_RestoreOnlySoftDeleted ==
    [][ \A p \in Procs :
          /\ (pc[p] = "rs_get" /\ pc'[p] # "rs_get" /\ last'.cause # "database_error") =>
                /\ loc[p].id \notin DOMAIN docs =>
                      /\ last'.caller = p /\ ~last'.ok /\ last'.cause = "not_found"
                      /\ docs' = docs
                /\ (loc[p].id \in DOMAIN docs /\ docs[loc[p].id]["deleted_at"] = None) =>
                      /\ last'.caller = p /\ ~last'.ok /\ last'.cause = "not_deleted"
                      /\ docs' = docs
          /\ (pc[p] = "rs_write" /\ last'.caller = p /\ last'.ok) =>
                /\ docs[loc[p].id]["deleted_at"] # None
                /\ docs'[loc[p].id]["deleted_at"] = None
      ]_vars

\* A restore of a live record has just been refused.
C7_Witness ==
    /\ last.op = "restore_content"
    /\ last.cause = "not_deleted"
    /\ docs[last.args.id]["deleted_at"] = None

\* C8: when update_document has read the document (the read itself not failing, the
\* updates not empty), it fails with "not found" on an absent id and with "already
\* deleted" on a soft-deleted record, in both cases leaving the collection unchanged;
\* its write changes, in that one document, exactly the fields of the updates (to the
\* values given) and updated_at (to the server's time); and a successful call returns
\* the whole document as stored.
C8_UpdateDocument ==
    [][ \A p \in Procs :
          /\ (pc[p] = "ud_get" /\ pc'[p] # "ud_get"
                /\ last'.cause \notin {"database_error", "missing_params"}) =>
                /\ loc[p].id \notin DOMAIN docs =>
                      /\ last'.caller = p /\ ~last'.ok /\ last'.cause = "not_found"
                      /\ docs' = docs
                /\ (loc[p].id \in DOMAIN docs /\ docs[loc[p].id]["deleted_at"] # None) =>
                      /\ last'.caller = p /\ ~last'.ok /\ last'.cause = "already_deleted"
                      /\ docs' = docs
          /\ (pc[p] = "ud_write" /\ pc'[p] = "ud_read") =>
                LET id == loc[p].id
                    updates == loc[p].updates
                IN  /\ DOMAIN docs' = DOMAIN docs
                    /\ \A j \in DOMAIN docs \ {id} : docs'[j] = docs[j]
                    /\ DOMAIN docs'[id] = DOMAIN docs[id] \cup DOMAIN updates \cup {"updated_at"}
                    /\ \A f \in DOMAIN docs'[id] :
                          docs'[id][f] = IF f = "updated_at" THEN Dt(now)
                                         ELSE IF f \in DOMAIN updates THEN updates[f]
                                         ELSE docs[id][f]
          /\ (pc[p] = "ud_read" /\ last'.caller = p /\ last'.ok) =>
                /\ docs' = docs
                /\ last'.value = docs'[loc[p].id]
      ]_vars

\* An update_metadata has just succeeded and returned the document with its new title.
C8_Witness ==
    /\ last.op = "update_metadata"
    /\ last.ok
    /\ last.args.id \in DOMAIN docs
    /\ last.value = docs[last.args.id]
    /\ Get(last.value, "title") = Str(<<"N">>)
    /\ Get(last.value, "description") = Str(<<"D">>)

\* C9 as stated: in every interleaving of an update with a soft delete, the write of
\* update_document lands only on a record whose deleted_at is None, and no field other
\* than deleted_at and updated_at changes in a record that is and stays soft-deleted.
C9_NoUpdateOnTombstone ==
    [][ /\ \A p \in Procs :
              (pc[p] = "ud_write" /\ pc'[p] = "ud_read") =>
                  docs[loc[p].id]["deleted_at"] = None
        /\ \A id \in DOMAIN docs \cap DOMAIN docs' :
              (docs[id]["deleted_at"] # None /\ docs'[id]["deleted_at"] # None) =>
                  /\ DOMAIN docs'[id] = DOMAIN docs[id]
                  /\ \A f \in DOMAIN docs[id] \ {"deleted_at", "updated_at"} :
                        docs'[id][f] = docs[id][f]
      ]_vars

\* C10: update_content on a live record writes the new bytes at the key the record
\* already has and at no other key; no step of the call adds or removes a document or
\* changes a document's bucket, blob_path or gcs_path; and when the call succeeds the
\* record's size_bytes is the number of bytes of the new content and those bytes are
\* the blob at its key.
C10_UpdateContentInPlace ==
    [][ \A p \in Procs :
          /\ (pc[p] = "uc_blob" /\ blobs' # blobs) =>
                LET id == loc[p].id
                    key == BlobKey(docs[id]["bucket"].s, docs[id]["blob_path"].s)
                IN  /\ DOMAIN blobs' = DOMAIN blobs \cup {key}
                    /\ \A k \in DOMAIN blobs \ {key} : blobs'[k] = blobs[k]
                    /\ blobs'[key].data = Encode(loc[p].args.new_content)
          /\ (pc[p] # "idle" /\ loc[p].op = "update_content") =>
                /\ DOMAIN docs' = DOMAIN docs
                /\ next_id' = next_id
                /\ \A j \in DOMAIN docs :
                      /\ docs'[j]["blob_path"] = docs[j]["blob_path"]
                      /\ docs'[j]["bucket"] = docs[j]["bucket"]
                      /\ docs'[j]["gcs_path"] = docs[j]["gcs_path"]
          /\ (pc[p] # "idle" /\ last'.caller = p /\ last'.op = "update_content" /\ last'.ok) =>
                LET id == loc[p].id
                    key == BlobKey(docs'[id]["bucket"].s, docs'[id]["blob_path"].s)
                IN  /\ docs'[id]["size_bytes"] = IntV(Len(Encode(last'.args.new_content)))
                    /\ key \in DOMAIN blobs'
                    /\ blobs'[key].data = Encode(last'.args.new_content)
      ]_vars

\* An update_content with a one-character str of two bytes has just succeeded on a
\* record uploaded with one byte: its size_bytes is 2.
C10_Witness ==
    /\ last.op = "update_content"
    /\ last.ok
    /\ last.args.new_content = ContentE
    /\ docs[last.args.id]["size_bytes"] = IntV(2)

\* C11: update_content goes on to its blob write only for a record that is there and
\* not soft-deleted; called for an absent id or a soft-deleted record it fails at once
\* (with "not found" unless the read itself failed), and the failed call changes
\* neither the collection (size_bytes included) nor the bucket.
C11_UpdateContentRefusesDeleted ==
    [][ \A p \in Procs :
          /\ (pc[p] = "idle" /\ pc'[p] = "uc_blob") =>
                /\ loc'[p].id \in DOMAIN docs
                /\ docs[loc'[p].id]["deleted_at"] = None
          /\ (pc[p] = "idle" /\ last'.caller = p /\ last'.op = "update_content") =>
                /\ ~last'.ok
                /\ docs' = docs
                /\ blobs' = blobs
                /\ last'.cause # "database_error" =>
                      /\ last'.cause = "not_found"
                      /\ \/ last'.args.id \notin DOMAIN docs
                         \/ docs[last'.args.id]["deleted_at"] # None
      ]_vars

\* An update_content of a soft-deleted record has just been refused; the record still
\* has the size of its upload.
C11_Witness ==
    /\ last.op = "update_content"
    /\ last.cause = "not_found"
    /\ last.args.id \in DOMAIN docs
    /\ docs[last.args.id]["deleted_at"] # None
    /\ docs[last.args.id]["size_bytes"] = IntV(1)

\* The key of the record update_content read when it was called.
ContentKey(l) == BlobKey(l.content["bucket"].s, l.content["blob_path"].s)

C13_ProtectedFieldsRejected ==
    [][ \A p \in Procs :
          /\ (pc[p] = "idle" /\ pc'[p] = "ud_get" /\ loc'[p].op = "update_metadata") =>
                DOMAIN loc'[p].args.updates \cap ProtectedNames = {}
          /\ (pc[p] = "idle" /\ last'.caller = p /\ last'.op = "update_metadata") =>
                /\ DOMAIN last'.args.updates \cap ProtectedNames # {}
                /\ ~last'.ok
                /\ last'.cause = "protected"
                /\ docs' = docs
      ]_vars

\* An update_metadata naming content_type together with title has just been refused
\* for an existing record, whose title is the uploaded one.
C13_Witness ==
    /\ last.op = "update_metadata"
    /\ last.cause = "protected"
    /\ DOMAIN last.args.updates = {"content_type", "title"}
    /\ last.args.id \in DOMAIN docs
    /\ Get(docs[last.args.id], "title") # Str(<<"N">>)

\* C14: a document is created under a fresh id with that id in its id field, and no
\* step of any operation changes the id, bucket, blob_path, gcs_path or created_at of a
\* document that exists before and after the step; so for as long as a record exists
\* these fields have the values of its creation.
C14_IdentityFieldsImmutable ==
    [][ /\ \A id \in DOMAIN docs' \ DOMAIN docs :
              /\ id = next_id
              /\ next_id' = next_id + 1
              /\ docs'[id]["id"] = [t |-> "id", n |-> id]
        /\ next_id' >= next_id
        /\ \A id \in DOMAIN docs \cap DOMAIN docs' :
              \A f \in {"id", "bucket", "blob_path", "gcs_path", "created_at"} :
                  /\ f \in DOMAIN docs'[id]
                  /\ docs'[id][f] = docs[id][f]
      ]_vars

\* A record whose title, tags and content have all been replaced has just been
\* restored; it still has its id, bucket and creation time.
C14_Witness ==
    /\ last.op = "restore_content"
    /\ last.ok
    /\ "title" \in DOMAIN docs[last.args.id]
    /\ docs[last.args.id]["title"] = Str(<<"N">>)
    /\ docs[last.args.id]["tags"] = List(<<TagT, TagU>>)
    /\ docs[last.args.id]["size_bytes"] = IntV(2)
    /\ docs[last.args.id]["id"] = [t |-> "id", n |-> last.args.id]
    /\ docs[last.args.id]["bucket"] = Str(DEFAULT_GCS_BUCKET)
    /\ docs[last.args.id]["created_at"] = Dt(1)

\* C15: every failure of a public ContentManager operation reaches the caller as a
\* ContentManagerError and never as another error kind.
C15_FailuresAreContentManagerErrors ==
    (/\ last.op \in {"upload_new_content", "update_content", "update_metadata",
                     "update_content_tags", "delete_content", "restore_content",
                     "get_content"}
     /\ ~last.ok)
    => last.exc = "ContentManagerError"

\* C16: validation fails fast. An upload_new_content rejected for its extension, its
\* metadata or its filename, and an update_metadata rejected for a protected field,
\* finish in the step that starts them, before the first blob-store or metadata-store
\* call, with blobs and documents as they were; and a call reaches its first remote
\* call only with arguments that pass every validation.
C16_ValidationFailsFast ==
    [][\A p \in Procs :
        /\ (/\ last'.caller = p
            /\ last'.op = "upload_new_content"
            /\ last'.cause \in {"invalid_extension", "not_dict", "missing", "unknown", "type",
                                "invalid_filename"})
           => pc[p] = "idle" /\ blobs' = blobs /\ docs' = docs
        /\ (last'.caller = p /\ last'.op = "update_metadata" /\ last'.cause = "protected")
           => pc[p] = "idle" /\ blobs' = blobs /\ docs' = docs
        /\ (/\ pc[p] = "idle"
            /\ \/ pc'[p] = "upload_create"
               \/ last'.caller = p /\ last'.op = "upload_new_content"
                  /\ last'.cause = "storage_error")
           => LET a == IF pc'[p] = "upload_create" THEN loc'[p].args ELSE last'.args
              IN  /\ _validate_extension(content_type, a.filename)
                  /\ _validate_metadata(content_type, a.metadata) = "ok"
                  /\ a.filename # <<>> /\ ~Occurs(a.filename, "/")
        /\ (pc[p] = "idle" /\ pc'[p] = "ud_get" /\ loc'[p].op = "update_metadata")
           => ProtectedNames \cap DOMAIN loc'[p].args.updates = {}
      ]_vars

C16_Witness ==
    /\ last.op = "upload_new_content"
    /\ last.cause = "invalid_filename"
    /\ pc[last.caller] = "idle"
    /\ DOMAIN docs # {}
    /\ DOMAIN blobs # {}

\* C17: the write of update_content_tags on a live record with tags C and argument T
\* stores T for 'set', C \cup T for 'add' and C \ T for 'remove', as a list in
\* ascending order without duplicates, and leaves every other field that is not a
\* timestamp as it was.
C17_TagOperations ==
    [][\A p \in Procs :
        (pc[p] = "ud_write" /\ loc[p].op = "update_content_tags" /\ pc'[p] = "ud_read")
        => LET args == loc[p].args
               old == docs[args.id]
               new == docs'[args.id]
               C == IF "tags" \in DOMAIN old THEN SetOf(old["tags"].l) ELSE {}
               T == SetOf(args.tags)
               expected == CASE args.operation = "set" -> T
                             [] args.operation = "add" -> C \cup T
                             [] args.operation = "remove" -> C \ T
               stored == new["tags"].l
           IN  /\ args.operation \in {"set", "add", "remove"}
               /\ new["tags"].t = "list"
               /\ SetOf(stored) = expected
               /\ \A i, j \in 1..Len(stored) : i < j => StrLess(stored[i], stored[j])
               /\ DOMAIN new = DOMAIN old \cup {"tags"}
               /\ \A f \in DOMAIN old \ {"tags", "updated_at", "last_modified"} :
                      new[f] = old[f]
      ]_vars

C17_Witness ==
    /\ last.op = "update_content_tags"
    /\ last.ok
    /\ last.args.operation = "add"
    /\ last.args.tags = <<TagU, TagU>>
    /\ last.value # None
    /\ last.value["tags"] = List(<<TagT, TagU>>)
    /\ docs[last.args.id]["tags"] = List(<<TagT, TagU>>)

\* C18 as stated: whenever the metadata store answers, update_content_tags with an
\* operation other than 'set', 'add' and 'remove' fails for the invalid operation.
C18_InvalidOperationAlways ==
    (/\ last.op = "update_content_tags"
     /\ last.args.operation \notin {"set", "add", "remove"}
     /\ last.cause # "database_error")
    => ~last.ok /\ last.cause = "invalid_operation"

\* C18: update_content_tags with an operation other than 'set', 'add' and 'remove'
\* ends after its read of the record, as a ContentManagerError, with every record
\* and blob unchanged: for the invalid operation when the read returns a live record,
\* for the record not being found when it returns none, for the store when the read
\* fails; and no such call reaches update_document.
C18_InvalidOperationRejected ==
    [][\A p \in Procs :
        /\ (/\ last'.caller = p
            /\ last'.op = "update_content_tags"
            /\ last'.args.operation \notin {"set", "add", "remove"})
           => /\ pc[p] = "idle"
              /\ ~last'.ok
              /\ last'.exc = "ContentManagerError"
              /\ \/ last'.cause = "database_error"
                 \/ last'.cause = IF read_document(docs, last'.args.id, FALSE) = None
                                  THEN "not_found" ELSE "invalid_operation"
              /\ docs' = docs
              /\ blobs' = blobs
        /\ (pc'[p] # "idle" /\ loc'[p].op = "update_content_tags")
           => loc'[p].args.operation \in {"set", "add", "remove"}
      ]_vars

C18_Witness ==
    /\ last.op = "update_content_tags"
    /\ last.cause = "invalid_operation"
    /\ last.args.operation = "replace"
    /\ last.args.tags = <<TagU, TagU>>
    /\ docs[last.args.id]["tags"] = List(<<TagT>>)
    /\ docs[last.args.id]["updated_at"] # Dt(now)

\* C19: the tags field of every record, when present, is a list without duplicates.
C19_TagsAreASet ==
    \A id \in DOMAIN docs :
        "tags" \in DOMAIN docs[id]
        => /\ docs[id]["tags"].t = "list"
           /\ \A i, j \in 1..Len(docs[id]["tags"].l) :
                  i # j => docs[id]["tags"].l[i] # docs[id]["tags"].l[j]

\* C20: a successful list_content with page >= 1 and per_page >= 1 returns total = the
\* number of live documents, pages = the least n with n * per_page >= total, and as
\* items the live documents at positions (page-1)*per_page up to page*per_page of the
\* whole ordered result (the k-th item has (page-1)*per_page + k - 1 live documents
\* before it in the order), which is empty on a page past the end.
C20_Pagination ==
    (last.op = "list_content" /\ last.ok)
    => LET v == last.value
           page == last.args.page.n
           per_page == last.args.per_page.n
           descending == Lower(last.args.sort_order) = Desc
           live == {id \in DOMAIN docs : docs[id]["deleted_at"] = None}
           total == Cardinality(live)
           first == (page - 1) * per_page
           count == IF total <= first THEN 0
                    ELSE IF total - first < per_page THEN total - first ELSE per_page
           before(id) == {i \in live : Precedes(docs[i], docs[id], "created_at", descending)}
       IN  /\ v.total = total
           /\ v.page = page
           /\ v.per_page = per_page
           /\ v.pages * per_page >= total
           /\ (v.pages - 1) * per_page < total
           /\ Len(v.items) = count
           /\ \A k \in 1..Len(v.items) :
                  \E id \in live : /\ v.items[k] = docs[id]
                                   /\ Cardinality(before(id)) = first + k - 1

C20_Witness ==
    /\ last.op = "list_content"
    /\ last.ok
    /\ last.args.page = IntV(2)
    /\ last.args.per_page = IntV(5)
    /\ last.value.total = 12
    /\ last.value.pages = 3
    /\ Len(last.value.items) = 5
    /\ last.value.items[1]["created_at"] # last.value.items[5]["created_at"]

\* C21: a successful list returns documents of the collection that satisfy every
\* filter and, unless include_deleted is set, have deleted_at None, each once, and as
\* total the number of all such documents; without pagination, and on a first page
\* that holds them all, the items are exactly those documents; list_content never
\* returns a soft-deleted document.
C21_ListIsFilteredSet ==
    (last.op \in {"list_content", "list_documents"} /\ last.ok)
    => LET v == last.value
           fs == last.args.filters
           satisfies(d, f) ==
               /\ f[1] \in DOMAIN d
               /\ IF f[2] = "==" THEN d[f[1]] = f[3]
                  ELSE d[f[1]].t = "list" /\ \E i \in 1..Len(d[f[1]].l) : d[f[1]].l[i] = f[3]
           triple(k) == IF last.op = "list_content" THEN fs[k]
                        ELSE <<fs[k].field, fs[k].op, fs[k].value>>
           deleted_too == last.op = "list_documents" /\ last.args.include_deleted
           matching == {docs[id] : id \in {i \in DOMAIN docs :
                            /\ deleted_too \/ docs[i]["deleted_at"] = None
                            /\ \A k \in 1..Len(fs) : satisfies(docs[i], triple(k))}}
           whole == \/ last.op = "list_documents"
                    \/ last.args.page.n = 1 /\ last.args.per_page.n >= Cardinality(matching)
       IN  /\ v.total = Cardinality(matching)
           /\ SetOf(v.items) \subseteq matching
           /\ \A i, j \in 1..Len(v.items) : i # j => v.items[i] # v.items[j]
           /\ whole => SetOf(v.items) = matching
           /\ last.op = "list_content"
              => \A i \in 1..Len(v.items) : v.items[i]["deleted_at"] = None

C21_Witness ==
    /\ last.op = "list_content"
    /\ last.ok
    /\ Len(last.args.filters) = 2
    /\ last.value.total = 1
    /\ Len(last.value.items) = 1
    /\ \E id \in DOMAIN docs :
          /\ docs[id]["deleted_at"] # None
          /\ TagU \in SetOf(docs[id]["tags"].l)
          /\ "title" \in DOMAIN docs[id] /\ docs[id]["title"] = Str(<<"N">>)

\* C22: a successful get_available_tags or get_distinct_tags returns the tags of the
\* documents that are not soft-deleted (of all documents when include_deleted is
\* set), each once, in ascending order; so a tag that only soft-deleted documents
\* carry is not returned, and is returned again once one of them is restored.
C22_DistinctTags ==
    (last.op \in {"get_available_tags", "get_distinct_tags"} /\ last.ok)
    => LET l == last.value.l
           deleted_too == last.op = "get_distinct_tags" /\ last.args.include_deleted
           read == {id \in DOMAIN docs : deleted_too \/ docs[id]["deleted_at"] = None}
       IN  /\ last.value.t = "list"
           /\ \A tag \in {TagT, TagU} :
                  (\E i \in 1..Len(l) : l[i] = tag)
                  <=> \E id \in read : \E k \in 1..Len(docs[id]["tags"].l) :
                          docs[id]["tags"].l[k] = tag
           /\ \A i \in 1..Len(l) : l[i] \in {TagT, TagU}
           /\ \A i, j \in 1..Len(l) : i < j => StrLess(l[i], l[j])

C22_Witness ==
    /\ last.op = "get_available_tags"
    /\ last.ok
    /\ last.value = List(<<TagT>>)
    /\ \E id \in DOMAIN docs :
          docs[id]["deleted_at"] # None /\ docs[id]["tags"] = List(<<TagU, TagT>>)
    /\ \E id \in DOMAIN docs :
          docs[id]["deleted_at"] = None /\ docs[id]["updated_at"] # docs[id]["created_at"]

C24_ClosedSchema ==
    (/\ last.op = "_validate_metadata"
     /\ last.cause \notin {"not_dict", "missing"})
    => LET config == CONTENT_TYPES(content_type)
           schema == config.required_metadata \cup config.optional_metadata
       IN  (~last.ok /\ last.cause = "unknown")
           <=> DOMAIN last.args.metadata.d \ schema # {}

\* C25: a dict is accepted only if its tags is a list or set of strs and its taken_at,
\* publish_date and created_date are datetimes; a str for tags or for a date field of
\* a dict with no missing and no unknown field fails for the type.
C25_TypedFields ==
    (last.op = "_validate_metadata")
    => LET m == last.args.metadata.d
           dates == {"taken_at", "publish_date", "created_date"} \cap DOMAIN m
       IN  /\ last.ok
              => /\ "tags" \in DOMAIN m
                    => m["tags"].t \in {"list", "set"} /\ "of" \notin DOMAIN m["tags"]
                 /\ \A f \in dates : m[f].t = "datetime"
           /\ (/\ last.cause \notin {"not_dict", "missing", "unknown"}
               /\ \E f \in dates \cup ({"tags"} \cap DOMAIN m) : m[f].t = "str")
              => ~last.ok /\ last.cause = "type"

C27_InvalidFilename ==
    (last.op = "_generate_file_path")
    => LET filename == last.args.filename
           invalid == filename = <<>> \/ \E i \in 1..Len(filename) : filename[i] = "/"
       IN  /\ invalid <=> ~last.ok
           /\ ~last.ok => last.cause = "invalid_filename" /\ last.exc = "ValueError"
                          /\ last.value = None

C27_Witness ==
    /\ last.op = "_generate_file_path"
    /\ ~last.ok
    /\ last.args.filename = <<"s", "u", "b", "/">>
    /\ last.args.date = Date(2024, 12, 31)

\* C28 as stated, for update_content: when the call fails, the record has the
\* updated_at it had when the call read it.
C28_FailureKeepsUpdatedAt ==
    [][\A p \in Procs :
        (/\ pc[p] \in {"uc_blob", "ud_get", "ud_write", "ud_read"}
         /\ loc[p].op = "update_content"
         /\ last'.caller = p
         /\ ~last'.ok
         /\ loc[p].id \in DOMAIN docs')
        => docs'[loc[p].id]["updated_at"] = loc[p].content["updated_at"]
      ]_vars

\* C28: every write to a document sets its updated_at to the current time, so
\* updated_at never decreases; every successful update, soft delete and restore has
\* made such a write; no failing step writes; and a step that writes either ends its
\* call with success or leaves it at the read-back of update_document, the one place
\* where a call can fail after its write.
C28_UpdatedAtRefreshed ==
    [][/\ \A id \in DOMAIN docs \cap DOMAIN docs' :
            /\ docs'[id]["updated_at"].n >= docs[id]["updated_at"].n
            /\ docs'[id] # docs[id] => docs'[id]["updated_at"] = Dt(now)
       /\ \A id \in DOMAIN docs' \ DOMAIN docs : docs'[id]["updated_at"] = Dt(now)
       /\ \A p \in Procs :
            /\ (/\ last'.caller = p
                /\ last'.ok
                /\ last'.op \in {"update_content", "update_metadata", "update_content_tags",
                                 "delete_content", "restore_content"})
               => \/ pc[p] = "ud_read"
                  \/ /\ pc[p] \in {"sd_write", "rs_write"}
                     /\ docs'[loc[p].id]["updated_at"] = Dt(now)
            /\ (pc'[p] = "ud_read") => pc[p] \in {"ud_write", "ud_read"}
            /\ (pc[p] = "ud_write" /\ pc'[p] = "ud_read")
               => docs'[loc[p].id]["updated_at"] = Dt(now)
            /\ (last'.caller = p /\ ~last'.ok) => docs' = docs
       /\ docs' # docs
          => \E p \in Procs :
                /\ pc[p] \in {"upload_create", "ud_write", "sd_write", "rs_write"}
                /\ pc'[p] = "ud_read" \/ (last'.caller = p /\ last'.ok)
      ]_vars

C28_Witness ==
    /\ last.op = "restore_content"
    /\ last.ok
    /\ now > 1
    /\ docs[last.args.id]["updated_at"] = Dt(now)
    /\ docs[last.args.id]["created_at"] = Dt(1)
    /\ docs[last.args.id]["deleted_at"] = None

\* C29: a successful upload_new_content returns the document create_document has
\* written: under an id no document had, with deleted_at None, updated_at now,
\* created_at the creation date given, or now when none is given, and the caller's
\* metadata fields as given; no other document changes; read_document right after
\* returns that document, and so does every successful get_content that finds one.
C29_CreateDocument ==
    [][\A p \in Procs :
        /\ (pc[p] = "upload_create" /\ last'.caller = p /\ last'.ok)
           => LET rec == last'.value
                  id == rec["id"].n
                  args == last'.args
              IN  /\ id \notin DOMAIN docs
                  /\ DOMAIN docs' = DOMAIN docs \cup {id}
                  /\ \A other \in DOMAIN docs : docs'[other] = docs[other]
                  /\ docs'[id] = rec
                  /\ rec["deleted_at"] = None
                  /\ rec["updated_at"] = Dt(now)
                  /\ rec["created_at"] = IF args.creation_date = None THEN Dt(now)
                                         ELSE args.creation_date
                  /\ \A f \in DOMAIN args.metadata.d : rec[f] = args.metadata.d[f]
                  /\ read_document(docs', id, FALSE) = rec
        /\ (last'.caller = p /\ last'.op = "get_content" /\ last'.ok /\ last'.value # None)
           => last'.value = docs[last'.args.id]
      ]_vars

C29_Witness ==
    /\ last.op = "upload_new_content"
    /\ last.ok
    /\ last.args.creation_date = Dt(1)
    /\ now > 1
    /\ last.value["id"].n > 1
    /\ docs[last.value["id"].n]["created_at"] = Dt(1)
    /\ docs[last.value["id"].n]["updated_at"] = Dt(now)

\* C30: hard_delete_document fails only when the store fails, never because the
\* document is absent or soft-deleted; when it succeeds, live, soft-deleted or absent,
\* it returns True, the id is not in the collection, read_document returns None for
\* it even with include_deleted, and every other document is as it was; when it fails
\* nothing has changed.
C30_HardDeleteIdempotent ==
    [][\A p \in Procs :
        (last'.caller = p /\ last'.op = "hard_delete_document")
        => LET id == last'.args.id
           IN  /\ pc[p] = "idle"
               /\ blobs' = blobs
               /\ last'.ok
                  => /\ last'.value = Bool(TRUE)
                     /\ DOMAIN docs' = DOMAIN docs \ {id}
                     /\ \A other \in DOMAIN docs' : docs'[other] = docs[other]
                     /\ read_document(docs', id, TRUE) = None
               /\ ~last'.ok => last'.cause = "database_error" /\ docs' = docs
      ]_vars

C30_Witness ==
    /\ last.op = "hard_delete_document"
    /\ last.ok
    /\ last.args.id >= next_id
    /\ \E other \in DOMAIN docs : docs[other]["deleted_at"] # None
    /\ \E other \in DOMAIN docs : docs[other]["deleted_at"] = None
    /\ pc["c1"] = "idle"

\* C31: callers upload the same kind, file name and date concurrently.  Every blob
\* write stores the writer's bytes at the one derived key, replacing what was there,
\* and no other step of an upload touches the bucket: the bucket holds exactly one
\* blob, with the bytes of the write that landed last.  Every upload that succeeds
\* adds a record with an id no other record has, which references that key.
C31_ConcurrentUploadsShareKey ==
    [][LET key == BlobKey(get_bucket_name,
                          _generate_file_path(content_type, KindFile(content_type), Dt(1), Dt(now)).path)
       IN  /\ \A p \in Procs :
                (pc[p] = "idle" /\ pc'[p] = "upload_create")
                => blobs' = (key :> [data |-> Encode(loc'[p].args.content),
                                     content_type |-> get_mime_type(content_type, KindFile(content_type))])
           /\ (\A p \in Procs : ~(pc[p] = "idle" /\ pc'[p] = "upload_create")) => blobs' = blobs
           /\ \A p \in Procs :
                (last'.caller = p /\ last'.op = "upload_new_content" /\ last'.ok)
                => LET id == last'.value["id"].n
                   IN  /\ id \notin DOMAIN docs
                       /\ DOMAIN docs' = DOMAIN docs \cup {id}
                       /\ \A other \in DOMAIN docs : docs'[other] = docs[other] /\ docs[other]["id"] # docs'[id]["id"]
                       /\ BlobKey(docs'[id]["bucket"].s, docs'[id]["blob_path"].s) = key
                       /\ DOMAIN blobs' = {key}
      ]_vars

\* Both callers have uploaded, the writes interleaved: the record created last is not
\* the one whose bytes the blob holds.
C31_Witness ==
    /\ last.op = "upload_new_content" /\ last.ok
    /\ DOMAIN docs = {1, 2}
    /\ docs[1]["blob_path"] = docs[2]["blob_path"]
    /\ docs[1]["size_bytes"] # docs[2]["size_bytes"]
    /\ Cardinality(DOMAIN blobs) = 1
    /\ \A k \in DOMAIN blobs : Len(blobs[k].data) = docs[1]["size_bytes"].n
    /\ last.value["id"].n = 2

\* C32: with two callers updating the metadata of live records concurrently, no
\* update_metadata on an existing record is refused (it fails only when the store
\* fails), and each write that lands sets exactly the fields of its own update (and
\* updated_at) to its own values, over whatever the other caller wrote, and leaves
\* every other field, the other caller's included, as it was.
C32_ConcurrentUpdatesMerge ==
    [][\A p \in Procs :
        /\ (pc[p] = "ud_write" /\ pc'[p] = "ud_read")
           => LET l == loc[p]
              IN  /\ l.id \in DOMAIN docs
                  /\ DOMAIN docs' = DOMAIN docs
                  /\ \A other \in DOMAIN docs \ {l.id} : docs'[other] = docs[other]
                  /\ DOMAIN docs'[l.id] = DOMAIN docs[l.id] \cup DOMAIN l.updates
                  /\ \A f \in DOMAIN l.updates \ {"updated_at"} : docs'[l.id][f] = l.updates[f]
                  /\ \A f \in DOMAIN l.args.updates : docs'[l.id][f] = l.args.updates[f]
                  /\ \A f \in DOMAIN docs[l.id] \ (DOMAIN l.updates \cup {"updated_at"}) :
                        docs'[l.id][f] = docs[l.id][f]
        /\ (last'.caller = p /\ last'.op = "update_metadata" /\ ~last'.ok
              /\ last'.args.id \in DOMAIN docs)
           => last'.cause = "database_error"
        /\ (last'.caller = p /\ last'.op = "update_metadata" /\ last'.ok)
           => last'.value = docs[last'.args.id]
      ]_vars

\* Both updates have landed, the title-only one last: the caller that wrote title and
\* description is handed the record with the other caller's title and its own description.
C32_Witness ==
    /\ last.op = "update_metadata" /\ last.ok
    /\ last.args.updates = [title |-> Str(<<"N">>), description |-> Str(<<"X">>)]
    /\ last.value["title"] = Str(<<"M">>)
    /\ last.value["description"] = Str(<<"X">>)
    /\ docs[last.args.id] = last.value
    /\ \A p \in Procs : pc[p] = "idle"

\* C33: an upload reaches create_document only by the step that wrote the blob: that
\* step stores the encoded content with the resolved MIME type at the derived path in
\* the configured bucket.  A record appears only when create_document returns, and it
\* references that write: bucket, blob_path and gcs_path name the key, size_bytes is
\* the length of the bytes stored there, content_type is the stored MIME type, and
\* last_modified is a field of the record exactly when the kind requires one.
C33_RecordReferencesWrite ==
    [][\A p \in Procs :
        /\ (pc'[p] = "upload_create" /\ pc[p] # "upload_create")
           => LET a == loc'[p].args
                  path == FormatPath(content_type, a.filename,
                                    Calendar(IF a.date = None THEN Dt(now) ELSE a.date))
                  key == BlobKey(DEFAULT_GCS_BUCKET, path)
              IN  /\ pc[p] = "idle"
                  /\ loc'[p].file_path = path
                  /\ key \in DOMAIN blobs'
                  /\ blobs'[key].data = Encode(a.content)
                  /\ blobs'[key].content_type =
                        (IF a.filename = PngFile THEN <<"i","m","a","g","e","/","p","n","g">>
                         ELSE IF content_type = "images" THEN <<"i","m","a","g","e","/","j","p","e","g">>
                         ELSE CONTENT_TYPES(content_type).default_content_type.s)
        /\ docs' # docs => last'.ok /\ last'.op = "upload_new_content"
        /\ (last'.caller = p /\ last'.op = "upload_new_content" /\ last'.ok)
           => LET rec == last'.value
                  key == BlobKey(DEFAULT_GCS_BUCKET, loc[p].file_path)
              IN  /\ pc[p] = "upload_create"
                  /\ docs'[rec["id"].n] = rec
                  /\ rec["bucket"] = Str(DEFAULT_GCS_BUCKET)
                  /\ rec["blob_path"] = Str(loc[p].file_path)
                  /\ rec["gcs_path"] = [t |-> "str", scheme |-> <<"g","s">>,
                                        bucket |-> DEFAULT_GCS_BUCKET, path |-> loc[p].file_path]
                  /\ key \in DOMAIN blobs'
                  /\ blobs' = blobs
                  /\ rec["size_bytes"] = IntV(Len(blobs[key].data))
                  /\ rec["size_bytes"] = IntV(Len(Encode(last'.args.content)))
                  /\ rec["content_type"] = Str(blobs[key].content_type)
                  /\ ("last_modified" \in DOMAIN rec) <=> (content_type = "blog")
                  /\ content_type = "blog" => rec["last_modified"] = Dt(now)
      ]_vars

\* An image uploaded as a str on the second day without a path date: two bytes at a
\* path of that day, typed image/png, and no last_modified.
C33_Witness ==
    /\ last.op = "upload_new_content" /\ last.ok
    /\ content_type = "images"
    /\ last.args.filename = PngFile /\ last.args.content = ContentE /\ last.args.date = None
    /\ last.value["size_bytes"] = IntV(2)
    /\ last.value["content_type"] = Str(<<"i","m","a","g","e","/","p","n","g">>)
    /\ last.value["blob_path"] = Str(FormatPath("images", PngFile, [year |-> 2024, month |-> 3, day |-> 6]))
    /\ "last_modified" \notin DOMAIN last.value
    /\ BlobKey(DEFAULT_GCS_BUCKET, last.value["blob_path"].s) \in DOMAIN blobs

\* C34: one item, step by step.  An upload with tags ["t"] stores a record with the
\* caller's metadata, and a default get of a live record returns the stored record
\* (status 200); adding "u" leaves the record with the tags it had and "u"; after a
\* soft delete a default get returns nothing (status 404) while the record keeps its
\* tags; after a restore a default get returns the record again, tags unchanged.
C34_ItemJourney ==
    [][\A p \in Procs :
        /\ (last'.caller = p /\ last'.op = "upload_new_content" /\ last'.ok)
           => LET rec == last'.value
              IN  /\ \A f \in DOMAIN last'.args.metadata.d : rec[f] = last'.args.metadata.d[f]
                  /\ rec["tags"] = List(<<TagT>>)
                  /\ read_document(docs', rec["id"].n, FALSE) = rec
        /\ (last'.caller = p /\ last'.op = "get_content" /\ last'.ok
              /\ ~last'.args.include_deleted)
           => LET id == last'.args.id
              IN  IF id \in DOMAIN docs /\ docs[id]["deleted_at"] = None
                  THEN last'.value = docs[id] /\ get_content_status(last'.value) = 200
                  ELSE last'.value = None /\ get_content_status(last'.value) = 404
        /\ (pc[p] = "ud_write" /\ pc'[p] = "ud_read" /\ loc[p].op = "update_content_tags")
           => LET id == loc[p].id
              IN  /\ SetOf(docs'[id]["tags"].l) = SetOf(docs[id]["tags"].l) \cup {TagU}
                  /\ docs'[id]["tags"] = List(SortedList(SetOf(docs'[id]["tags"].l)))
        /\ (last'.caller = p /\ last'.op = "delete_content" /\ last'.ok)
           => LET id == last'.args.id
              IN  /\ read_document(docs', id, FALSE) = None
                  /\ get_content_status(read_document(docs', id, FALSE)) = 404
                  /\ docs'[id]["tags"] = docs[id]["tags"]
        /\ (last'.caller = p /\ last'.op = "restore_content" /\ last'.ok)
           => LET id == last'.args.id
              IN  /\ read_document(docs', id, FALSE) = docs'[id]
                  /\ get_content_status(read_document(docs', id, FALSE)) = 200
                  /\ docs'[id]["tags"] = docs[id]["tags"]
      ]_vars

\* The end of the journey: the record that was uploaded, given its second tag and
\* soft-deleted has just been restored, and a default get finds it with both tags.
C34_Witness ==
    /\ last.op = "restore_content" /\ last.ok
    /\ docs[last.args.id]["tags"] = List(<<TagT, TagU>>)
    /\ docs[last.args.id]["deleted_at"] = None
    /\ docs[last.args.id]["updated_at"] = Dt(MaxClock)
    /\ read_document(docs, last.args.id, FALSE) = docs[last.args.id]
    /\ get_content_status(read_document(docs, last.args.id, FALSE)) = 200

\* C35: in behaviours without remote failures, whenever no call is in progress every
\* record, live or soft-deleted, has a blob stored at its bucket and blob_path.
C35_RecordsHaveBlobs ==
    (\A p \in Procs : pc[p] = "idle")
    => \A id \in DOMAIN docs :
          BlobKey(docs[id]["bucket"].s, docs[id]["blob_path"].s) \in DOMAIN blobs

\* The records other than id that reference the storage key of record id.
C36_Sharers(id) ==
    {j \in DOMAIN docs \ {id} :
        /\ docs[j]["bucket"] = docs[id]["bucket"]
        /\ docs[j]["blob_path"] = docs[id]["blob_path"]}

\* C36 as stated: after any sequence of completed uploads and content updates, every
\* live record's size_bytes is the length of the blob stored at its key.
C36_SizeMatchesBlob ==
    (\A p \in Procs : pc[p] = "idle")
    => \A id \in DOMAIN docs :
          docs[id]["deleted_at"] = None
          => LET key == BlobKey(docs[id]["bucket"].s, docs[id]["blob_path"].s)
             IN  key \in DOMAIN blobs /\ docs[id]["size_bytes"] = IntV(Len(blobs[key].data))

\* C36 amended: after any sequence of completed uploads and content updates, every
\* live record whose storage key no other record references has, as size_bytes, the
\* length of the blob stored at its key.
C36_SizeMatchesOwnBlob ==
    (\A p \in Procs : pc[p] = "idle")
    => \A id \in DOMAIN docs :
          (docs[id]["deleted_at"] = None /\ C36_Sharers(id) = {})
          => LET key == BlobKey(docs[id]["bucket"].s, docs[id]["blob_path"].s)
             IN  key \in DOMAIN blobs /\ docs[id]["size_bytes"] = IntV(Len(blobs[key].data))

\* Two records with keys of their own, one uploaded as a str of two bytes, the other
\* just replaced by it: both sizes are 2.
C36_Witness ==
    /\ last.op = "update_content" /\ last.ok /\ last.args.new_content = ContentE
    /\ DOMAIN docs = {1, 2}
    /\ docs[1]["blob_path"] # docs[2]["blob_path"]
    /\ docs[1]["size_bytes"] = IntV(2) /\ docs[2]["size_bytes"] = IntV(2)
    /\ \A k \in DOMAIN blobs : Len(blobs[k].data) = 2
    /\ Cardinality(DOMAIN blobs) = 2

\* C37: no step of an update_metadata, update_content_tags or update_content call
\* changes the deleted_at of any record.
C37_UpdatesKeepDeletedAt ==
    [][\A p \in Procs :
        (pc[p] # "idle" /\ loc[p].op \in {"update_metadata", "update_content_tags", "update_content"}
           /\ pc'[p] # pc[p])
        => \A id \in DOMAIN docs \cap DOMAIN docs' :
              docs'[id]["deleted_at"] = docs[id]["deleted_at"]
      ]_vars

\* C38: with callers that only add tags and calls that never fail, once an add has
\* returned successfully and no call is in progress, the record carries the tags of
\* that call (and, by the same argument for the calls before it, of every call).
C38_NoLostTag ==
    (/\ last.op = "update_content_tags"
     /\ last.ok
     /\ \A p \in Procs : pc[p] = "idle")
    => SetOf(last.args.tags) \subseteq SetOf(docs[last.args.id]["tags"].l)

\* C39: take a successful list_content and list the same collection with the same
\* filters, order and per_page for every page 1..pages.  The call's items are the
\* page it asked for; every page before the last has per_page items and the last has
\* the rest, at least one; the n-th document of the whole filtered ordered result is
\* at its place on page (n-1) div per_page + 1, so the pages in order make up the whole
\* result of length total; and no document is on two pages.
C39_PagesPartition ==
    (last.op = "list_content" /\ last.ok)
    => LET a == last.args
           r == last.value
           n_pages == r.pages
           filter_dicts == [k \in 1..Len(a.filters) |->
                               [field |-> a.filters[k][1], op |-> a.filters[k][2],
                                value |-> a.filters[k][3]]]
           descending == Lower(a.sort_order) = Desc
           pg(k) == list_documents(docs, FALSE, None, a.sort_by, descending, filter_dicts,
                                   IntV(k), a.per_page).items
           whole == list_documents(docs, FALSE, None, a.sort_by, descending, filter_dicts,
                                   None, None).items
       IN  /\ r.items = pg(a.page.n)
           /\ Len(whole) = r.total
           /\ \A k \in 1..n_pages :
                list_documents(docs, FALSE, None, a.sort_by, descending, filter_dicts,
                               IntV(k), a.per_page).total = r.total
           /\ \A k \in 1..(n_pages - 1) : Len(pg(k)) = a.per_page.n
           /\ r.total > 0 => /\ n_pages >= 1
                             /\ Len(pg(n_pages)) \in 1..a.per_page.n
                             /\ Len(pg(n_pages)) = r.total - (n_pages - 1) * a.per_page.n
           /\ r.total = 0 => n_pages = 0
           /\ \A n \in 1..r.total :
                LET k == ((n - 1) \div a.per_page.n) + 1
                    i == ((n - 1) % a.per_page.n) + 1
                IN  k <= n_pages /\ i <= Len(pg(k)) /\ pg(k)[i] = whole[n]
           /\ \A j, k \in 1..n_pages :
                j # k => \A x \in 1..Len(pg(j)), y \in 1..Len(pg(k)) : pg(j)[x]["id"] # pg(k)[y]["id"]

\* The last of two pages of the records tagged u: three records, two to a page.
C39_Witness ==
    /\ last.op = "list_content" /\ last.ok
    /\ last.args.filters = <<TagFilter>>
    /\ last.args.per_page = IntV(2)
    /\ last.args.page = IntV(2)
    /\ last.value.total = 3
    /\ last.value.pages = 2
    /\ Len(last.value.items) = 1
    /\ Cardinality(DOMAIN docs) = MaxListed

\* C40: a soft delete that succeeds finds deleted_at None and writes deleted_at and
\* updated_at only; while the record is a tombstone no step changes it; the restore
\* that succeeds writes deleted_at, back to None, and updated_at only.  So after the
\* round trip every field but updated_at has the value it had before the soft delete.
\* No step of either call changes the bucket.
C40_SoftDeleteRestoreRoundTrip ==
    [][/\ \A p \in Procs :
            /\ (pc[p] = "sd_write" /\ last'.caller = p /\ last'.ok)
               => LET id == last'.args.id
                  IN  /\ docs[id]["deleted_at"] = None
                      /\ docs'[id]["deleted_at"] = Dt(now)
                      /\ DOMAIN docs' = DOMAIN docs
                      /\ DOMAIN docs'[id] = DOMAIN docs[id]
                      /\ \A f \in DOMAIN docs[id] \ {"deleted_at", "updated_at"} :
                            docs'[id][f] = docs[id][f]
                      /\ \A other \in DOMAIN docs \ {id} : docs'[other] = docs[other]
            /\ (pc[p] = "rs_write" /\ last'.caller = p /\ last'.ok)
               => LET id == last'.args.id
                  IN  /\ docs[id]["deleted_at"] # None
                      /\ docs'[id]["deleted_at"] = None
                      /\ DOMAIN docs' = DOMAIN docs
                      /\ DOMAIN docs'[id] = DOMAIN docs[id]
                      /\ \A f \in DOMAIN docs[id] \ {"deleted_at", "updated_at"} :
                            docs'[id][f] = docs[id][f]
                      /\ \A other \in DOMAIN docs \ {id} : docs'[other] = docs[other]
            /\ (pc[p] \in {"sd_get", "sd_write", "rs_get", "rs_write"} /\ pc'[p] # pc[p])
               => blobs' = blobs
       /\ \A id \in DOMAIN docs :
            (docs[id]["deleted_at"] # None /\ ~(last'.op = "restore_content" /\ last'.ok))
            => (id \in DOMAIN docs' /\ docs'[id] = docs[id])
      ]_vars

\* A record that was given a second tag has been soft-deleted on the first day and
\* has just been restored on a later one: it has its tags, its size, its creation
\* time and its blob.
C40_Witness ==
    /\ last.op = "restore_content" /\ last.ok
    /\ now > 1
    /\ LET rec == docs[last.args.id]
       IN  /\ rec["deleted_at"] = None
           /\ rec["updated_at"] = Dt(now)
           /\ rec["tags"] = List(<<TagT, TagU>>)
           /\ rec["size_bytes"] = IntV(1)
           /\ rec["created_at"] = Dt(1)
           /\ BlobKey(rec["bucket"].s, rec["blob_path"].s) \in DOMAIN blobs
           /\ blobs[BlobKey(rec["bucket"].s, rec["blob_path"].s)].data = Encode(ContentA)

====
